---- MODULE Spec2Model ----
(***************************************************************************)
(* Transport / session layer of the omni-python-playground.                *)
(*                                                                         *)
(*   BasedPyrightTransport  (multi-worker transport, boot protocol)        *)
(*   WebWorkerTransport     (single-worker transport)                      *)
(*   tyLSPService / basedPyrightLSPService (session managers)              *)
(*   tyWorker               (the engine adapter inside the ty worker)      *)
(*                                                                         *)
(* Every method of the code is a pure operator on the "world" record       *)
(*   [tr |-> transports, wk |-> workers, ep |-> endpoints, clk |-> clock,  *)
(*    sm |-> the managers' module variables, cl |-> the LSP clients]       *)
(* so that a handler that calls other methods is the composition of their  *)
(* operators, in the order of the source.  Actions apply one handler.      *)
(* clock stamps worker construction, termination and client disconnection, *)
(* so that the order of the calls inside one handler can be observed.      *)
(*                                                                         *)
(* Environment: a worker event (message, error, messageerror) may be       *)
(* dispatched whenever its listener is still attached; a message the       *)
(* worker posted before terminate() may still be dispatched afterwards.    *)
(***************************************************************************)
EXTENDS Integers, Sequences, FiniteSets, TLC

VARIABLES transports, workers, endpoints, clock, sm, clients, lastCall, steps,
          frames, updates,
          workspace, fileHandles, pythonVersion, engine, closing, pending, lastMsg,
          conv, app

sVars == <<frames, updates>>
\* the state of the ty worker's adapter, and the state of everything else
aVars == <<workspace, fileHandles, pythonVersion, engine, closing, pending, lastMsg>>
wVars == <<transports, workers, endpoints, clock, sm, clients, lastCall, frames, updates, app>>
vars == <<transports, workers, endpoints, clock, sm, clients, lastCall, steps,
          frames, updates,
          workspace, fileHandles, pythonVersion, engine, closing, pending, lastMsg,
          conv, app>>

(***************************************************************************)
(* Bounds of the model.                                                    *)
(***************************************************************************)
MaxTransports == 3   \* transports (= create calls) in one run
MaxSpawn == 2        \* 'browser/newWorker' requests of one primary worker
MaxEvents == 4       \* calls and worker events in one run
MaxMessages == 4     \* messages the ty worker receives in one run
MaxPending == 1      \* 'initialize' requests suspended at 'await init()' at a time
MaxAppEvents == 3    \* event handlers, timer callbacks and pushes of the App in one run

TIds == 1..MaxTransports
WIds == 1..(MaxTransports + MaxSpawn)
EIds == 1..MaxSpawn
Handlers == {"h1", "h2"}
Managers == {"ty", "bp"}
Versions == {"3.12", "3.13"}

(***************************************************************************)
(* Message values.  One record shape for every value that crosses a worker *)
(* boundary.  tag is the JavaScript type of the value:                     *)
(*   "null", "obj"          a structured value                             *)
(*   "str_bad"              a string JSON.parse throws on                  *)
(*   "str_null"             the string "null"                              *)
(*   "str_obj"              a string that parses to the object given by    *)
(*                          the other fields                               *)
(* Of the 'initialize' parameters, initVersion is                          *)
(* params.initializationOptions.pythonVersion and configVersion is the     *)
(* pythonVersion of params.initializationOptions.files                     *)
(* ['/workspace/pyrightconfig.json'];  "none" stands for undefined.        *)
(* files is the set of paths of params.initializationOptions.files and     *)
(* typeCheckingMode the mode its pyrightconfig.json gives.                 *)
(***************************************************************************)
M0 == [tag |-> "obj", jsonrpc |-> "none", type |-> "none", mode |-> "none",
       initialData |-> 0, port |-> 0, method |-> "none", params |-> "none", n |-> 0,
       initVersion |-> "none", configVersion |-> "none",
       rootUri |-> "none", workspaceFolders |-> <<>>, files |-> {},
       typeCheckingMode |-> "none"]

NullData == [M0 EXCEPT !.tag = "null"]
WorkerReady == [M0 EXCEPT !.type = "worker-ready"]
Rpc(k) == [M0 EXCEPT !.jsonrpc = "2.0", !.n = k]
RpcOld == [M0 EXCEPT !.jsonrpc = "1.0"]
BootMsg(mode, d, e) ==
    [M0 EXCEPT !.type = "browser/boot", !.mode = mode, !.initialData = d, !.port = e]
SpawnReq(d, e) == [M0 EXCEPT !.type = "browser/newWorker", !.initialData = d, !.port = e]
StrBad == [M0 EXCEPT !.tag = "str_bad"]
StrNull == [M0 EXCEPT !.tag = "str_null"]

\* JSON.stringify of a structured object, and JSON.parse of a string.
JSONstringify(v) == [v EXCEPT !.tag = "str_obj"]
JSONparseThrows(s) == s.tag = "str_bad"
JSONparse(s) == IF s.tag = "str_null" THEN NullData ELSE [s EXCEPT !.tag = "obj"]

IsString(v) == v.tag \in {"str_bad", "str_null", "str_obj"}
IsObject(v) == v.tag = "obj"        \* typeof v === 'object' && v !== null

\* What a worker may post to the main thread (other than a spawn request).
InboundData ==
    {NullData, WorkerReady, RpcOld, Rpc(1), Rpc(2),
     BootMsg("foreground", 0, 0), StrBad, StrNull, JSONstringify(Rpc(1))}

\* The opaque initialization payload of the k-th spawn request.
InitialData(k) == 6 + k

\* A 'textDocument/publishDiagnostics' notification carrying the diagnostics p.
DiagnosticsPayloads == {"diags1", "diags2"}
PublishDiagnosticsMsg(p) ==
    [M0 EXCEPT !.jsonrpc = "2.0", !.method = "textDocument/publishDiagnostics", !.params = p]

\* What a caller may pass to send().
Request(method, params) ==
    JSONstringify([M0 EXCEPT !.jsonrpc = "2.0", !.method = method, !.params = params])
OutboundData ==
    {[Request("initialize", "orig") EXCEPT !.rootUri = "file:///"],
     Request("initialize", "none"), Request("textDocument/hover", "orig"), StrBad}

(***************************************************************************)
(* Objects.                                                                *)
(***************************************************************************)
NoTransport ==
    [kind |-> "none", owner |-> "none", pythonVersion |-> "none", closed |-> FALSE,
     worker |-> 0,
     backgroundWorkers |-> <<>>, handlers |-> <<>>, ready |-> "na", timer |-> FALSE,
     listeners |-> {}, onClose |-> 0, onError |-> 0, closeCalls |-> 0,
     nSpawn |-> 0, spawnErrors |-> 0, msgErrors |-> 0, rpcSeen |-> FALSE,
     delivered |-> <<>>]

NoWorker ==
    [state |-> "none", owner |-> 0, role |-> "none", terminations |-> 0,
     bornAt |-> 0, diedAt |-> 0, inbox |-> <<>>]

NoManager == [client |-> 0, transport |-> 0, currentPythonVersion |-> "3.12"]
NoClient == [state |-> "none", transport |-> 0, initializing |-> "na", disconnectedAt |-> 0]
NoFrame == [pc |-> "none", mgr |-> "none", oldClient |-> 0, oldTransport |-> 0,
            pythonVersion |-> "none", onDiagnostics |-> FALSE, replaced |-> 0]
NoUpdate == [pc |-> "none", version |-> "none", replaced |-> 0]
\* The state of the App component: the selection, the isChecking flag, who wrote
\* the diagnostics last, the create call of the current LSP effect (lsp), the
\* create calls whose effect has been cleaned up (cancelled), the debounce timer
\* of the check effect and the checkCode call suspended at 'await runTypeChecker'.
NoCheck == [pc |-> "none", cancelled |-> FALSE]
NoApp == [typeChecker |-> "none", pythonVersion |-> "none", isChecking |-> FALSE,
          diagnostics |-> [by |-> "none", frame |-> 0], lsp |-> 0, cancelled |-> {},
          debounce |-> FALSE, check |-> NoCheck]

World == [tr |-> transports, wk |-> workers, ep |-> endpoints, clk |-> clock,
          sm |-> sm, cl |-> clients]

Apply(S) ==
    /\ transports' = S.tr
    /\ workers' = S.wk
    /\ endpoints' = S.ep
    /\ clock' = S.clk
    /\ sm' = S.sm
    /\ clients' = S.cl
    /\ UNCHANGED <<aVars, conv, app>>

Range(s) == {s[i] : i \in 1..Len(s)}

\* ---- the Worker interface of the browser ---------------------------------
NextWorker(S) == 1 + Cardinality({w \in WIds : S.wk[w].state # "none"})

\* new Worker(url, options)
NewWorker(S, t, role) ==
    [S EXCEPT !.wk[NextWorker(S)] =
                  [NoWorker EXCEPT !.state = "running", !.owner = t, !.role = role,
                                   !.bornAt = S.clk],
              !.clk = S.clk + 1]

\* worker.terminate()
Terminate(S, w) ==
    [S EXCEPT !.wk[w] = [@ EXCEPT !.state = "terminated",
                                  !.terminations = @ + 1,
                                  !.diedAt = IF S.wk[w].state = "running" THEN S.clk ELSE @],
              !.clk = S.clk + 1]

\* worker.postMessage(msg)
PostMessage(S, w, msg) == [S EXCEPT !.wk[w].inbox = Append(@, msg)]

\* worker.postMessage(msg, [port]): the port leaves the sender's context.
PostMessageTransfer(S, w, msg, e) ==
    [PostMessage(S, w, msg) EXCEPT !.ep[e] = (@ \ {0}) \cup {w}]

\* ---- both transports: the subscriber set (a JavaScript Set keeps insertion order)
SetAdd(s, h) == IF h \in Range(s) THEN s ELSE Append(s, h)
SetDelete(s, h) == SelectSeq(s, LAMBDA x : x # h)

subscribe(S, t, h) == [S EXCEPT !.tr[t].handlers = SetAdd(@, h)]
unsubscribe(S, t, h) == [S EXCEPT !.tr[t].handlers = SetDelete(@, h)]

\* the handlers that throw on every message they are given
ThrowingHandlers == {"h1"}

\* a forEach without the try/catch around the handler: the first throw ends it
forEachHandler_uncaught(S, t, message) ==
    LET hs == S.tr[t].handlers
        stop == IF \E i \in 1..Len(hs) : hs[i] \in ThrowingHandlers
                THEN CHOOSE i \in 1..Len(hs) :
                         hs[i] \in ThrowingHandlers
                         /\ \A j \in 1..(i - 1) : hs[j] \notin ThrowingHandlers
                ELSE Len(hs)
    IN [S EXCEPT !.tr[t].delivered =
            @ \o [i \in 1..stop |-> [h |-> hs[i], msg |-> message]]]

\* this.handlers.forEach(handler => { try { handler(message) } catch { ... } }):
\* what a handler throws is caught and logged, and the forEach goes on
forEachHandler(S, t, message) ==
    [S EXCEPT !.tr[t].delivered =
        @ \o [i \in 1..Len(S.tr[t].handlers) |-> [h |-> S.tr[t].handlers[i], msg |-> message]]]

isClosed(S, t) == S.tr[t].closed


resolveReady(S, t) ==
    IF S.tr[t].ready = "pending" THEN [S EXCEPT !.tr[t].ready = "resolved"] ELSE S
rejectReady(S, t) ==
    IF S.tr[t].ready = "pending" THEN [S EXCEPT !.tr[t].ready = "rejected"] ELSE S

RECURSIVE TerminateAll(_, _)
\* ws.forEach(worker => worker.terminate())
TerminateAll(S, ws) ==
    IF ws = <<>> THEN S ELSE TerminateAll(Terminate(S, Head(ws)), Tail(ws))

(***************************************************************************)
(* BasedPyrightTransport                                                   *)
(***************************************************************************)
\* initializeWorker(); ok = FALSE: new Worker(...) throws and the catch runs.
\* a construction that posts no boot message
BPinitializeWorker_noBoot(S, t, ok) ==
    IF ok
    THEN LET w == NextWorker(S)
             S1 == NewWorker(S, t, "fg")
             S2 == [S1 EXCEPT !.tr[t].worker = w,
                              !.tr[t].listeners = {"message", "error"}]
         IN [S2 EXCEPT !.tr[t].timer = TRUE]
    ELSE rejectReady(S, t)

BPinitializeWorker(S, t, ok) ==
    IF ok
    THEN LET w == NextWorker(S)
             S1 == NewWorker(S, t, "fg")
             S2 == [S1 EXCEPT !.tr[t].worker = w,
                              !.tr[t].listeners = {"message", "error"}]
             S3 == PostMessage(S2, w, BootMsg("foreground", 0, 0))
         IN [S3 EXCEPT !.tr[t].timer = TRUE]
    ELSE rejectReady(S, t)

BPconstructor(S, t, owner, version, ok) ==
    BPinitializeWorker(
        [S EXCEPT !.tr[t] = [NoTransport EXCEPT !.kind = "bp", !.owner = owner,
                                                !.pythonVersion = version,
                                                !.ready = "pending"]], t, ok)

\* the setTimeout(..., 100) callback of initializeWorker
BPreadyTimeout(S, t) ==
    LET S1 == [S EXCEPT !.tr[t].timer = FALSE]
    IN IF ~S1.tr[t].closed THEN resolveReady(S1, t) ELSE S1

\* the 'error' listener of the foreground worker
BPerrorListener(S, t) ==
    rejectReady([S EXCEPT !.tr[t].onError = @ + 1], t)

\* createBackgroundWorker with the payload left out of the boot message
BPcreateBackgroundWorker_noData(S, t, data, ok) ==
    IF ok
    THEN LET w == NextWorker(S)
             S1 == NewWorker(S, t, "bg")
             S2 == [S1 EXCEPT !.tr[t].backgroundWorkers = Append(@, w)]
         IN PostMessageTransfer(S2, w, BootMsg("background", 0, data.port), data.port)
    ELSE [S EXCEPT !.tr[t].spawnErrors = @ + 1]

\* createBackgroundWorker with the port copied instead of transferred
BPcreateBackgroundWorker_copy(S, t, data, ok) ==
    IF ok
    THEN LET w == NextWorker(S)
             S1 == NewWorker(S, t, "bg")
             S2 == [S1 EXCEPT !.tr[t].backgroundWorkers = Append(@, w)]
             S3 == PostMessage(S2, w, BootMsg("background", data.initialData, data.port))
         IN [S3 EXCEPT !.ep[data.port] = @ \cup {w}]
    ELSE [S EXCEPT !.tr[t].spawnErrors = @ + 1]

\* createBackgroundWorker(data); ok = FALSE: new Worker(...) throws, caught.
BPcreateBackgroundWorker(S, t, data, ok) ==
    IF ok
    THEN LET w == NextWorker(S)
             S1 == NewWorker(S, t, "bg")
             S2 == [S1 EXCEPT !.tr[t].backgroundWorkers = Append(@, w)]
         IN PostMessageTransfer(S2, w,
                BootMsg("background", data.initialData, data.port), data.port)
    ELSE [S EXCEPT !.tr[t].spawnErrors = @ + 1]    \* console.error in the catch

\* handleMessage forwarding every structured object
BPhandleMessage_noFilter(S, t, data, ok) ==
    IF ~IsObject(data) THEN S
    ELSE IF data.type = "browser/newWorker" THEN BPcreateBackgroundWorker(S, t, data, ok)
    ELSE forEachHandler(S, t, JSONstringify(data))

BPhandleMessage(S, t, data, ok) ==
    IF ~IsObject(data) THEN S
    ELSE IF data.type = "browser/newWorker" THEN BPcreateBackgroundWorker(S, t, data, ok)
    ELSE IF data.jsonrpc = "2.0" THEN forEachHandler(S, t, JSONstringify(data))
    ELSE S

BPsendThrows(S, t) == S.tr[t].closed \/ S.tr[t].worker = 0

\* the interception of 'initialize' in send(); version is this.options.pythonVersion
WorkspaceFolder == [uri |-> "file:///workspace", name |-> "workspace"]
\* the keys of the snapshot; "/workspace/typeshed" stands for the bundled stubs
SnapshotFiles ==
    {"/workspace/main.py", "/workspace/typeshed", "/workspace/.root",
     "/workspace/pyrightconfig.json"}

\* an interception that injects the options and leaves the root alone
BPintercept_keepRoot(parsed, version) ==
    IF parsed.method = "initialize" /\ parsed.params # "none"
    THEN [parsed EXCEPT !.params = "injected",
                        !.initVersion = "none",
                        !.configVersion = IF version # "none" THEN version ELSE "3.12",
                        !.files = SnapshotFiles,
                        !.typeCheckingMode = "strict"]
    ELSE parsed

BPintercept(parsed, version) ==
    IF parsed.method = "initialize" /\ parsed.params # "none"
    THEN [parsed EXCEPT !.params = "injected",
                        !.rootUri = "file:///workspace",
                        !.workspaceFolders = <<WorkspaceFolder>>,
                        !.initVersion = "none",
                        !.configVersion = IF version # "none" THEN version ELSE "3.12",
                        !.files = SnapshotFiles,
                        !.typeCheckingMode = "strict"]
    ELSE parsed

BPsend(S, t, message) ==
    IF JSONparseThrows(message) \/ JSONparse(message).tag = "null"
    THEN PostMessage(S, S.tr[t].worker, message)
    ELSE PostMessage(S, S.tr[t].worker,
                     BPintercept(JSONparse(message), S.tr[t].pythonVersion))

BPclose(S, t) ==
    IF S.tr[t].closed THEN S
    ELSE LET S1 == [S EXCEPT !.tr[t].closed = TRUE]
             S2 == IF S1.tr[t].worker # 0
                   THEN [Terminate(S1, S1.tr[t].worker) EXCEPT !.tr[t].worker = 0]
                   ELSE S1
             S3 == [TerminateAll(S2, S2.tr[t].backgroundWorkers)
                        EXCEPT !.tr[t].backgroundWorkers = <<>>]
             S4 == [S3 EXCEPT !.tr[t].handlers = <<>>]
         IN [S4 EXCEPT !.tr[t].onClose = @ + 1]

(***************************************************************************)
(* WebWorkerTransport                                                      *)
(***************************************************************************)
WWconstructor(S, t, owner) ==
    LET w == NextWorker(S)
        S1 == NewWorker([S EXCEPT !.tr[t] = [NoTransport EXCEPT !.kind = "ww",
                                                              !.owner = owner]],
                        t, "single")
    IN [S1 EXCEPT !.tr[t].worker = w,
                  !.tr[t].listeners = {"message", "error", "messageerror"}]

WWmessageListener(S, t, data) ==
    IF IsObject(data) /\ data.jsonrpc = "2.0"
    THEN forEachHandler(S, t, JSONstringify(data))
    ELSE IF IsString(data)
    THEN IF JSONparseThrows(data) THEN S
         ELSE IF JSONparse(data).tag = "null" THEN S   \* parsed.jsonrpc throws, caught
         ELSE IF JSONparse(data).jsonrpc = "2.0" THEN forEachHandler(S, t, data)
         ELSE S
    ELSE S

\* an error listener that also closes the transport
WWerrorListener_closes(S, t) ==
    [S EXCEPT !.tr[t].onError = @ + 1, !.tr[t].closed = TRUE, !.tr[t].handlers = <<>>]

WWerrorListener(S, t) == [S EXCEPT !.tr[t].onError = @ + 1]

WWhandleClose(S, t) ==
    [S EXCEPT !.tr[t].closed = TRUE,
              !.tr[t].listeners = @ \ {"message", "error"},
              !.tr[t].handlers = <<>>]

\* the 'messageerror' listener
WWmessageerrorListener(S, t) ==
    [WWhandleClose([S EXCEPT !.tr[t].msgErrors = @ + 1], t) EXCEPT !.tr[t].onClose = @ + 1]

\* send() without its closed guard
WWsendThrows_never(S, t) == FALSE

WWsendThrows(S, t) == S.tr[t].closed

WWsend(S, t, message) ==
    IF JSONparseThrows(message)
    THEN PostMessage(S, S.tr[t].worker, message)
    ELSE PostMessage(S, S.tr[t].worker, JSONparse(message))

WWclose(S, t) ==
    IF S.tr[t].closed THEN S
    ELSE Terminate(WWhandleClose(S, t), S.tr[t].worker)

(***************************************************************************)
(* Calls and events on a transport, whichever its kind.                    *)
(***************************************************************************)
close(S, t) ==
    LET S1 == [S EXCEPT !.tr[t].closeCalls = @ + 1]
    IN IF S.tr[t].kind = "bp" THEN BPclose(S1, t) ELSE WWclose(S1, t)

sendThrows(S, t) ==
    IF S.tr[t].kind = "bp" THEN BPsendThrows(S, t) ELSE WWsendThrows(S, t)

send(S, t, message) ==
    IF sendThrows(S, t) THEN S
    ELSE IF S.tr[t].kind = "bp" THEN BPsend(S, t, message) ELSE WWsend(S, t, message)

\* the 'message' event: a value other than a spawn request
onmessage(S, t, data) ==
    LET S1 == [S EXCEPT !.tr[t].rpcSeen = @ \/ (IsObject(data) /\ data.jsonrpc = "2.0")]
    IN IF S.tr[t].kind = "bp" THEN BPhandleMessage(S1, t, data, TRUE)
       ELSE WWmessageListener(S1, t, data)

\* the 'message' event carrying {type: 'browser/newWorker', initialData, port}:
\* the port arrives in the main context with the event.
onspawn(S, t, ok) ==
    LET e == S.tr[t].nSpawn + 1
        S1 == [S EXCEPT !.tr[t].nSpawn = e, !.ep[e] = {0}]
    IN BPhandleMessage(S1, t, SpawnReq(InitialData(e), e), ok)

Live(t) == transports[t].kind # "none"
Call(op, t, threw, data, invoked) ==
    [op |-> op, t |-> t, threw |-> threw, data |-> data, invoked |-> invoked, posted |-> 0,
     diag |-> <<>>, mgr |-> "none", version |-> "none"]
\* handler invocations and postMessage calls made by the step that leads to S
Invoked(S, t) == Len(S.tr[t].delivered) - Len(transports[t].delivered)
Posts(wk) == {<<w, i>> \in WIds \X (1..MaxEvents + 1) : i <= Len(wk[w].inbox)}
Posted(S) == Cardinality(Posts(S.wk)) - Cardinality(Posts(workers))

\* A continuation of an async function whose awaited promise has settled is a
\* microtask: it runs before the next call or worker event (a macrotask).
CanResume(c) ==
    \/ frames[c].pc = "awaitReady" /\ transports[c].ready # "pending"
    \/ frames[c].pc = "awaitInit" /\ clients[c].initializing # "pending"
Quiescent ==
    /\ \A c \in TIds : ~CanResume(c)
    /\ \A m \in Managers : updates[m].pc = "none"
    /\ app.check.pc = "none"

\* One call or worker event: it counts against the run's budget.
Event(S, call) ==
    /\ Quiescent
    /\ steps < MaxEvents
    /\ steps' = steps + 1
    /\ Apply(S)
    /\ lastCall' = call

Subscribe(t, h) ==
    /\ Live(t)
    /\ Event(subscribe(World, t, h), Call("subscribe", t, FALSE, M0, 0))
    /\ UNCHANGED sVars

Unsubscribe(t, h) ==
    /\ Live(t)
    /\ h \in Range(transports[t].handlers)
    /\ Event(unsubscribe(World, t, h), Call("unsubscribe", t, FALSE, M0, 0))
    /\ UNCHANGED sVars

Send(t, m) ==
    /\ Live(t)
    /\ LET S1 == send(World, t, m)
       IN Event(S1, [Call("send", t, sendThrows(World, t), m, 0)
                         EXCEPT !.posted = Posted(S1)])
    /\ UNCHANGED sVars

Close(t) ==
    /\ Live(t)
    /\ Event(close(World, t), Call("close", t, FALSE, M0, 0))
    /\ UNCHANGED sVars

ReadyTimeout(t) ==
    /\ transports[t].kind = "bp"
    /\ transports[t].timer
    /\ Event(BPreadyTimeout(World, t), Call("timeout", t, FALSE, M0, 0))
    /\ UNCHANGED sVars

WorkerError(t) ==
    /\ Live(t)
    /\ "error" \in transports[t].listeners
    /\ Event(IF transports[t].kind = "bp" THEN BPerrorListener(World, t)
             ELSE WWerrorListener(World, t),
             Call("error", t, FALSE, M0, 0))
    /\ UNCHANGED sVars

WorkerMessageError(t) ==
    /\ transports[t].kind = "ww"
    /\ "messageerror" \in transports[t].listeners
    /\ Event(WWmessageerrorListener(World, t), Call("messageerror", t, FALSE, M0, 0))
    /\ UNCHANGED sVars

WorkerMessage(t, data) ==
    /\ Live(t)
    /\ "message" \in transports[t].listeners
    /\ LET S1 == onmessage(World, t, data)
       IN Event(S1, Call("message", t, FALSE, data, Invoked(S1, t)))
    /\ UNCHANGED sVars

SpawnRequest(t, ok) ==
    /\ transports[t].kind = "bp"
    /\ "message" \in transports[t].listeners
    /\ transports[t].nSpawn < MaxSpawn
    /\ NextWorker(World) \in WIds
    /\ LET e == transports[t].nSpawn + 1
           S1 == onspawn(World, t, ok)
       IN Event(S1, Call("spawn", t, FALSE, SpawnReq(InitialData(e), e), Invoked(S1, t)))
    /\ UNCHANGED sVars

(***************************************************************************)
(* tyWorker: the engine adapter inside the ty worker.  Its module state is *)
(* workspace (0: null, k: the k-th Workspace constructed), fileHandles     *)
(* (0: no entry, h: the h-th FileHandle the engine returned) and           *)
(* pythonVersion.  The engine is seen through its call surface only:       *)
(* engine.workspaces[k] is the 'python-version' the k-th Workspace was     *)
(* constructed with, engine.files[h] the uri and text of the h-th handle   *)
(* and the number of closeFile calls made on it.  Every engine call may    *)
(* throw; a call that throws returns no handle and changes no text.  A     *)
(* handler is an operator on the record Adapter, whose out and calls       *)
(* collect the messages posted and the engine calls made.                  *)
(***************************************************************************)
URIs == {"file:///main.py", "file:///lib.py"}
Texts == {"A", "B", "C"}
ChangeLists == {<<>>, <<"B">>, <<"C", "A">>}

\* An inbound message; params = FALSE: the request carries no params.
R0 == [tag |-> "obj", jsonrpc |-> "2.0", id |-> "undefined", method |-> "none",
       params |-> TRUE, initVersion |-> "none", uri |-> "none", text |-> "none",
       changes |-> <<>>]

DocumentMethods ==
    {"textDocument/diagnostic", "textDocument/hover", "textDocument/completion",
     "textDocument/definition", "textDocument/references",
     "textDocument/typeDefinition", "textDocument/declaration",
     "textDocument/documentHighlight", "textDocument/signatureHelp",
     "textDocument/formatting"}
SyncMethods == {"textDocument/didOpen", "textDocument/didChange", "textDocument/didClose"}
HandledMethods ==
    {"initialize", "initialized", "shutdown", "exit"} \cup SyncMethods \cup DocumentMethods
UnknownMethods == {"textDocument/inlayHint", "$/cancelRequest"}
\* the methods of the providers the 'initialize' response declares
AdvertisedMethods ==
    DocumentMethods \cup {"textDocument/inlayHint", "textDocument/codeAction"}

AdapterMessages ==
    {[R0 EXCEPT !.method = "initialize", !.id = "1", !.initVersion = v] :
        v \in {"none", "3.13"}}
    \cup {[R0 EXCEPT !.method = "initialize", !.id = "1", !.params = FALSE]}
    \cup {[R0 EXCEPT !.method = m] : m \in {"initialized", "exit"}}
    \cup {[R0 EXCEPT !.method = "shutdown", !.id = "2"]}
    \cup {[R0 EXCEPT !.method = "textDocument/didOpen", !.uri = u, !.text = "A"] : u \in URIs}
    \cup {[R0 EXCEPT !.method = "textDocument/didChange", !.uri = u, !.changes = c] :
            u \in URIs, c \in ChangeLists}
    \cup {[R0 EXCEPT !.method = "textDocument/didClose", !.uri = u] : u \in URIs}
    \cup {[R0 EXCEPT !.method = m, !.id = "2", !.uri = u] : m \in DocumentMethods, u \in URIs}
    \cup {[R0 EXCEPT !.method = m, !.params = FALSE] : m \in SyncMethods}
    \cup {[R0 EXCEPT !.method = "textDocument/hover", !.id = "1", !.params = FALSE]}
    \cup {[R0 EXCEPT !.method = m, !.id = i] : m \in UnknownMethods, i \in {"undefined", "1"}}
    \cup {[R0 EXCEPT !.tag = "null", !.jsonrpc = "none"],
          [R0 EXCEPT !.tag = "str", !.jsonrpc = "none"],
          [R0 EXCEPT !.jsonrpc = "none"],
          [R0 EXCEPT !.jsonrpc = "1.0", !.method = "initialize"]}

\* the points of a handler at which a step can throw
Failures == {"none", "init", "engine"}

(***************************************************************************)
(* Conversions of the adapter and of the application (pure functions).     *)
(* A string the code inspects character by character is a sequence of      *)
(* one-character strings.                                                  *)
(***************************************************************************)
MaxCoord == 2        \* largest line and character of a protocol position
MaxSeverity == 4     \* largest severity number an engine or a server sends

LSPPositions == [line : 0..MaxCoord, character : 0..MaxCoord]
TyPositions == [line : 1..(MaxCoord + 1), column : 1..(MaxCoord + 1)]

\* new TyPosition(line, column)
lspToTyPosition(pos) == [line |-> pos.line + 1, column |-> pos.character + 1]

\* a conversion that forgets the shift
tyToLSPPosition_unshifted(pos) == [line |-> pos.line, character |-> pos.column]

tyToLSPPosition(pos) == [line |-> pos.line - 1, character |-> pos.column - 1]

tyToLSPRange(range) ==
    [start |-> tyToLSPPosition([line |-> range.start.line, column |-> range.start.column]),
     end |-> tyToLSPPosition([line |-> range.end.line, column |-> range.end.column])]

\* String.prototype.startsWith and String.prototype.substring(start)
startsWith(s, prefix) == Len(s) >= Len(prefix) /\ SubSeq(s, 1, Len(prefix)) = prefix
substring(s, start) == SubSeq(s, start + 1, Len(s))

FileScheme == <<"f", "i", "l", "e", ":", "/", "/">>   \* 'file://'
FileMarker == <<"/", "f", "i", "l", "e", ":", "/">>   \* '/file:/'

\* the rewrite that prefixes every path
locationURI_prefixAll(path) == FileScheme \o path

\* the uri of tyLocationLinkToLSPLocation
locationURI(path) ==
    IF startsWith(path, FileMarker) THEN FileScheme \o substring(path, 6)
    ELSE IF ~startsWith(path, FileScheme) THEN FileScheme \o path
    ELSE path

tyLocationLinkToLSPLocation(loc) ==
    [uri |-> locationURI(loc.path), range |-> tyToLSPRange(loc.full_range)]

\* the engine's severity levels, and the one it has beyond them
SeverityInfo == 0
SeverityWarning == 1
SeverityError == 2
Severities == 0..MaxSeverity

\* a pull that knows errors and warnings only
lspSeverity_twoLevels(severity) == IF severity = 2 THEN 1 ELSE 2

\* 'textDocument/diagnostic': engine severity to protocol severity
lspSeverity(severity) == IF severity = 2 THEN 1 ELSE IF severity = 1 THEN 2 ELSE 3

\* onDiagnostics of the application: protocol severity to application severity
appSeverity(severity) ==
    IF severity = 1 THEN "error" ELSE IF severity = 2 THEN "warning" ELSE "info"

\* checkWithTy: engine severity to application severity
tySeverity(severity) ==
    IF severity = SeverityError THEN "error"
    ELSE IF severity = SeverityWarning THEN "warning" ELSE "info"

NoResult == [shape |-> "none", items |-> <<>>]
NullResult == [shape |-> "null", items |-> <<>>]               \* null
EmptyArray == [shape |-> "array", items |-> <<>>]              \* []
EmptyItems == [shape |-> "items", items |-> <<>>]              \* { items: [] }
EmptyFull == [shape |-> "full", items |-> <<>>]                \* { kind: 'full', items: [] }
Capabilities == [shape |-> "capabilities", items |-> <<>>]

P0 == [jsonrpc |-> "2.0", kind |-> "none", id |-> "undefined", result |-> NoResult,
       code |-> 0, message |-> "none", method |-> "none"]

\* the adapter of a worker that has just started
NewAdapter == [workspace |-> 0, fileHandles |-> [u \in URIs |-> 0], pythonVersion |-> "3.12",
               engine |-> [workspaces |-> <<>>, files |-> <<>>], closing |-> FALSE,
               out |-> <<>>, calls |-> 0]

Adapter == [workspace |-> workspace, fileHandles |-> fileHandles,
            pythonVersion |-> pythonVersion, engine |-> engine, closing |-> closing,
            out |-> <<>>, calls |-> 0]

selfPostMessage(A, msg) == [A EXCEPT !.out = Append(@, msg)]

sendResponse(A, id, result) ==
    selfPostMessage(A, [P0 EXCEPT !.kind = "response", !.id = id, !.result = result])

\* sendError with a fixed code
sendError_fixedCode(A, id, code, message) ==
    selfPostMessage(A, [P0 EXCEPT !.kind = "error", !.id = id, !.code = -32603,
                                  !.message = message])

sendError(A, id, code, message) ==
    selfPostMessage(A, [P0 EXCEPT !.kind = "error", !.id = id, !.code = code,
                                  !.message = message])

sendNotification(A, method) ==
    selfPostMessage(A, [P0 EXCEPT !.kind = "notification", !.method = method])

\* ---- the call surface of the engine (ty_wasm) ------------------------------
\* new Workspace('/', PositionEncoding.Utf16, {environment: {'python-version': v}})
newWorkspace(A, v) ==
    [A EXCEPT !.engine.workspaces = Append(@, v),
              !.workspace = Len(A.engine.workspaces) + 1,
              !.calls = @ + 1]

\* workspace.openFile(uri, text): the engine returns a new handle
NextHandle(A) == Len(A.engine.files) + 1
openFile(A, uri, text) ==
    [A EXCEPT !.engine.files = Append(@, [uri |-> uri, text |-> text, closeFile |-> 0,
                                          workspace |-> A.workspace]),
              !.calls = @ + 1]

updateFile(A, handle, newText) ==
    [A EXCEPT !.engine.files[handle].text = newText, !.calls = @ + 1]

closeFile(A, handle) ==
    [A EXCEPT !.engine.files[handle].closeFile = @ + 1, !.calls = @ + 1]

\* checkFile, hover, completions, goto..., documentHighlights, signatureHelp and
\* format read the text of the handle.  What the engine finds is a function of the
\* The engine's answers are functions of the file alone.  Every text has one
\* item naming it; hover and signatureHelp have nothing to say about text "A".
engineRead(A) == [A EXCEPT !.calls = @ + 1]
sourceText(A, handle) == A.engine.files[handle].text
Finding(A, handle) == <<sourceText(A, handle)>>
FindsNothing(A, handle) == sourceText(A, handle) = "A"

\* the characters of the texts
Content(text) ==
    CASE text = "A" -> <<"a", "\n", "\n", "b">>
      [] text = "B" -> <<"a", "b", "\n">>
      [] OTHER -> <<"a", "b">>

NoPosition == [line |-> 0, column |-> 0]                \* undefined
NoRange == [start |-> NoPosition, end |-> NoPosition]   \* toRange() gave nothing
TyRanges ==
    {[start |-> [line |-> 1, column |-> c], end |-> [line |-> l, column |-> c + 1]] :
        c \in 1..MaxCoord, l \in 1..MaxCoord}
TyRange(l1, c1, l2, c2) ==
    [start |-> [line |-> l1, column |-> c1], end |-> [line |-> l2, column |-> c2]]
TyDiagnostic(range, severity, message) ==
    [range |-> range, severity |-> severity, message |-> message]

\* workspace.checkFile(handle): the diagnostics of a file, each with the text
\* as its message; one of them has no range, and one file is clean
checkFile(A, handle) ==
    LET file == A.engine.files[handle]
        text == file.text
    IN  IF file.uri = "file:///main.py"
        THEN IF text = "A"
             THEN <<TyDiagnostic(TyRange(1, 1, 1, 2), SeverityError, text)>>
             ELSE <<TyDiagnostic(NoRange, SeverityWarning, text),
                    TyDiagnostic(TyRange(2, 1, 3, 1), SeverityInfo, text)>>
        ELSE IF text = "A"
             THEN <<TyDiagnostic(TyRange(1, 2, 1, 3), SeverityInfo, text),
                    TyDiagnostic(TyRange(1, 1, 1, 2), SeverityError, text),
                    TyDiagnostic(TyRange(3, 1, 3, 2), SeverityWarning, text)>>
             ELSE IF text = "B" THEN <<>>
             ELSE <<TyDiagnostic(NoRange, SeverityError, text)>>

\* workspace.format(handle): the formatted text, or "" (nothing, or the empty
\* string: both are falsy) for a text that needs no formatting
format(A, handle) ==
    LET text == sourceText(A, handle)
    IN  IF text = "A" THEN "" ELSE "formatted " \o text

\* String.prototype.split(separator)
RECURSIVE split(_, _)
split(s, separator) ==
    IF \E i \in 1..Len(s) : s[i] = separator
    THEN LET i == CHOOSE k \in 1..Len(s) :
                      s[k] = separator /\ \A j \in 1..(k - 1) : s[j] # separator
         IN  <<SubSeq(s, 1, i - 1)>> \o split(SubSeq(s, i + 1, Len(s)), separator)
    ELSE <<s>>

\* a diagnostic that keeps the engine's range
lspDiagnostic_engineRange(diag) ==
    [range |-> [start |-> [line |-> diag.range.start.line,
                           character |-> diag.range.start.column],
                end |-> [line |-> diag.range.end.line,
                         character |-> diag.range.end.column]],
     severity |-> lspSeverity(diag.severity), message |-> diag.message, source |-> "ty"]

\* 'textDocument/diagnostic': one engine diagnostic as a protocol diagnostic
lspDiagnostic(diag) ==
    [range |-> IF diag.range # NoRange THEN tyToLSPRange(diag.range)
               ELSE [start |-> [line |-> 0, character |-> 0],
                     end |-> [line |-> 0, character |-> 0]],
     severity |-> lspSeverity(diag.severity), message |-> diag.message, source |-> "ty"]

\* an edit that ends at the start of the last line
formatEdit_lineStart(currentText, formatted) ==
    LET lines == split(currentText, "\n")
        lastLine == Len(lines) - 1
    IN  [range |-> [start |-> [line |-> 0, character |-> 0],
                    end |-> [line |-> lastLine, character |-> 0]],
         newText |-> formatted]

\* 'textDocument/formatting': the edit that replaces the whole document
formatEdit(currentText, formatted) ==
    LET lines == split(currentText, "\n")
        lastLine == Len(lines) - 1
        lastChar == Len(lines[lastLine + 1])
    IN  [range |-> [start |-> [line |-> 0, character |-> 0],
                    end |-> [line |-> lastLine, character |-> lastChar]],
         newText |-> formatted]

\* ---- handleRequest --------------------------------------------------------
\* null for every method
EmptyResult_allNull(method) == NullResult

\* the result a document method answers with when the state is missing
EmptyResult(method) ==
    CASE method = "textDocument/diagnostic" -> EmptyFull
      [] method \in {"textDocument/hover", "textDocument/signatureHelp"} -> NullResult
      [] method = "textDocument/completion" -> EmptyItems
      [] OTHER -> EmptyArray

\* the result built from what the engine returned
EngineResult(A, method, handle) ==
    CASE method = "textDocument/diagnostic" ->
             [shape |-> "full",
              items |-> [i \in 1..Len(checkFile(A, handle)) |->
                            lspDiagnostic(checkFile(A, handle)[i])]]
      [] method = "textDocument/completion" ->
             [shape |-> "items", items |-> Finding(A, handle)]
      [] method = "textDocument/hover" ->
             IF FindsNothing(A, handle) THEN NullResult
             ELSE [shape |-> "hover", items |-> Finding(A, handle)]
      [] method = "textDocument/signatureHelp" ->
             IF FindsNothing(A, handle) THEN NullResult
             ELSE [shape |-> "signatures", items |-> Finding(A, handle)]
      [] method = "textDocument/formatting" ->
             IF format(A, handle) = "" THEN EmptyArray
             ELSE [shape |-> "array",
                   items |-> <<formatEdit(Content(sourceText(A, handle)),
                                          format(A, handle))>>]
      [] OTHER -> [shape |-> "array", items |-> Finding(A, handle)]

\* a catch that posts nothing
catchError_silent(A, id) == A

\* the catch of handleRequest: what the try had done to the state stays done
catchError(A, id) == sendError(A, id, -32603, "Internal error")

\* the default case
defaultCase(A, id) == sendError(A, id, -32601, "Method not found")

MissingState(A, uri) == A.workspace = 0 \/ A.fileHandles[uri] = 0

\* case 'initialize' after 'await init()'
initialize(A, request, fail) ==
    IF fail = "init" THEN catchError(A, request.id)
    ELSE LET v == IF request.params /\ request.initVersion # "none"
                  THEN request.initVersion ELSE "3.12"
             A1 == [A EXCEPT !.pythonVersion = v]
         IN IF fail = "engine" THEN catchError([A1 EXCEPT !.calls = @ + 1], request.id)
            ELSE sendResponse(newWorkspace(A1, v), request.id, Capabilities)

didOpen(A, request, fail) ==
    IF ~request.params THEN catchError(A, request.id)
    ELSE IF A.workspace = 0 THEN A
    ELSE IF fail = "engine" THEN catchError([A EXCEPT !.calls = @ + 1], request.id)
    ELSE LET handle == NextHandle(A)
         IN [openFile(A, request.uri, request.text)
                EXCEPT !.fileHandles[request.uri] = handle]

\* didChange taking the last entry of the change list
didChange_last(A, request, fail) ==
    IF ~request.params THEN catchError(A, request.id)
    ELSE LET handle == A.fileHandles[request.uri]
         IN IF A.workspace # 0 /\ handle # 0 /\ Len(request.changes) > 0
            THEN IF fail = "engine"
                 THEN catchError([A EXCEPT !.calls = @ + 1], request.id)
                 ELSE updateFile(A, handle, request.changes[Len(request.changes)])
            ELSE A

didChange(A, request, fail) ==
    IF ~request.params THEN catchError(A, request.id)
    ELSE LET handle == A.fileHandles[request.uri]
         IN IF A.workspace # 0 /\ handle # 0 /\ Len(request.changes) > 0
            THEN IF fail = "engine"
                 THEN catchError([A EXCEPT !.calls = @ + 1], request.id)
                 ELSE updateFile(A, handle, request.changes[1])
            ELSE A

\* closeFile is called and may throw; the entry is deleted only after it returned.
didClose(A, request, fail) ==
    IF ~request.params THEN catchError(A, request.id)
    ELSE LET handle == A.fileHandles[request.uri]
         IN IF A.workspace # 0 /\ handle # 0
            THEN IF fail = "engine"
                 THEN catchError(closeFile(A, handle), request.id)
                 ELSE [closeFile(A, handle) EXCEPT !.fileHandles[request.uri] = 0]
            ELSE A

\* the ten document-scoped cases
documentRequest(A, request, fail) ==
    IF ~request.params THEN catchError(A, request.id)
    ELSE IF MissingState(A, request.uri)
    THEN sendResponse(A, request.id, EmptyResult(request.method))
    ELSE IF fail = "engine" THEN catchError(engineRead(A), request.id)
    ELSE sendResponse(engineRead(A), request.id,
                      EngineResult(A, request.method, A.fileHandles[request.uri]))

\* handleRequest, from its entry or, for 'initialize', from the return of init()
handleRequest(A, request, fail) ==
    CASE request.method = "initialize" -> initialize(A, request, fail)
      [] request.method = "initialized" -> sendNotification(A, "window/logMessage")
      [] request.method = "textDocument/didOpen" -> didOpen(A, request, fail)
      [] request.method = "textDocument/didChange" -> didChange(A, request, fail)
      [] request.method = "textDocument/didClose" -> didClose(A, request, fail)
      [] request.method \in DocumentMethods -> documentRequest(A, request, fail)
      [] request.method = "shutdown" -> sendResponse(A, request.id, NullResult)
      [] request.method = "exit" -> [A EXCEPT !.closing = TRUE]
      [] OTHER -> defaultCase(A, request.id)

\* fail names a step the handling of request in A reaches
Reaches(A, request, fail) ==
    \/ fail = "none"
    \/ /\ request.method = "initialize"
       /\ fail \in {"init", "engine"}
    \/ /\ fail = "engine"
       /\ request.params
       /\ \/ request.method = "textDocument/didOpen" /\ A.workspace # 0
          \/ /\ request.method \in {"textDocument/didChange", "textDocument/didClose"}
             /\ ~MissingState(A, request.uri)
             /\ request.method = "textDocument/didChange" => Len(request.changes) > 0
          \/ request.method \in DocumentMethods /\ ~MissingState(A, request.uri)

\* typeof message === 'object' && message.jsonrpc === '2.0'
IsProtocolMessage(message) == message.tag = "obj" /\ message.jsonrpc = "2.0"
\* message.jsonrpc of null throws in the listener, outside handleRequest
ListenerThrows(message) == message.tag = "null"

\* What the last step did: the message, whether it was dropped, made the listener
\* throw ("rejected"), was suspended at 'await init()' or was handled by
\* handleRequest to its end, the step that threw, the messages posted,
\* the engine calls made, whether the listener's promise rejected, and which
\* kinds of outcome ("unknown" method, "threw") the earlier steps had.
NoMsg == [request |-> [R0 EXCEPT !.jsonrpc = "none"], phase |-> "none", fail |-> "none",
          out |-> <<>>, calls |-> 0, escaped |-> FALSE, seen |-> {}]

\* a step of the handling of request throws: the engine, init(), or the read of
\* a property of the missing params
Threw(request, fail) ==
    fail # "none" \/ (~request.params /\ request.method \in SyncMethods \cup DocumentMethods)

Outcome(msg) ==
    IF msg.phase # "handled" \/ msg.escaped THEN {}
    ELSE IF msg.request.method \notin HandledMethods THEN {"unknown"}
    ELSE IF Threw(msg.request, msg.fail) THEN {"threw"}
    ELSE {}

InitAdapterState ==
    /\ workspace = NewAdapter.workspace
    /\ fileHandles = NewAdapter.fileHandles
    /\ pythonVersion = NewAdapter.pythonVersion
    /\ engine = NewAdapter.engine
    /\ closing = NewAdapter.closing
    /\ pending = <<>>
    /\ lastMsg = NoMsg

ApplyAdapter(A, request, phase, fail, escaped) ==
    /\ workspace' = A.workspace
    /\ fileHandles' = A.fileHandles
    /\ pythonVersion' = A.pythonVersion
    /\ engine' = A.engine
    /\ closing' = A.closing
    /\ lastMsg' = [request |-> request, phase |-> phase, fail |-> fail, out |-> A.out,
                   calls |-> A.calls, escaped |-> escaped,
                   seen |-> lastMsg.seen \cup Outcome(lastMsg)]
    /\ UNCHANGED <<wVars, conv>>

\* The 'message' listener of the worker, to the end of the handling or, for
\* 'initialize', to 'await init()'.
AdapterMessage(message, fail) ==
    /\ ~closing
    /\ steps < MaxMessages
    /\ steps' = steps + 1
    /\ IF ListenerThrows(message)
       THEN /\ fail = "none"
            /\ ApplyAdapter(Adapter, message, "rejected", fail, TRUE)
            /\ UNCHANGED pending
       ELSE IF ~IsProtocolMessage(message)
       THEN /\ fail = "none"
            /\ ApplyAdapter(Adapter, message, "dropped", fail, FALSE)
            /\ UNCHANGED pending
       ELSE IF message.method = "initialize"
       THEN /\ fail = "none"
            /\ Len(pending) < MaxPending
            /\ ApplyAdapter(Adapter, message, "suspended", fail, FALSE)
            /\ pending' = Append(pending, message)
       ELSE /\ Reaches(Adapter, message, fail)
            /\ ApplyAdapter(handleRequest(Adapter, message, fail), message, "handled",
                            fail, FALSE)
            /\ UNCHANGED pending

\* init() has settled: the oldest suspended 'initialize' runs to its end.
InitializeResume(fail) ==
    /\ ~closing
    /\ pending # <<>>
    /\ fail \in {"none", "init", "engine"}
    /\ ApplyAdapter(handleRequest(Adapter, Head(pending), fail), Head(pending), "handled",
                    fail, FALSE)
    /\ pending' = Tail(pending)
    /\ UNCHANGED steps

(***************************************************************************)
(* The checker services behind runTypeChecker, and the conversions as      *)
(* steps: conv holds the input drawn at the start, the functions applied   *)
(* to it so far and the last function's result.                            *)
(***************************************************************************)
TypeCheckers == {"pyright", "basedpyright", "ty", "pyrefly"}

FirstPosition == [line |-> 1, column |-> 1]
AppDiagnostic(start, end, message, severity, source) ==
    [start |-> start, end |-> end, message |-> message, severity |-> severity,
     source |-> source]

checkWithPyright ==
    <<AppDiagnostic(FirstPosition, FirstPosition, "not yet implemented", "info", "Pyright")>>
checkWithPyrefly == <<>>
checkWithBasedPyright == <<>>

checkWithTy(tyDiagnostics, threw) ==
    IF threw
    THEN <<AppDiagnostic(FirstPosition, FirstPosition, "Failed to run ty", "error", "ty")>>
    ELSE [i \in 1..Len(tyDiagnostics) |->
            AppDiagnostic(tyDiagnostics[i].range.start, tyDiagnostics[i].range.end,
                          tyDiagnostics[i].message, tySeverity(tyDiagnostics[i].severity),
                          "ty")]

\* No service throws (checkWithTy catches what the engine throws), so the
\* catch of runTypeChecker has nothing to catch.
runTypeChecker(typeChecker, tyDiagnostics, threw) ==
    CASE typeChecker = "pyright" -> checkWithPyright
      [] typeChecker = "basedpyright" -> checkWithBasedPyright
      [] typeChecker = "ty" -> checkWithTy(tyDiagnostics, threw)
      [] typeChecker = "pyrefly" -> checkWithPyrefly
      [] OTHER -> <<>>

NoConv == [kind |-> "none", input |-> "none", ops |-> <<>>, output |-> "none"]
Input(kind, value) == [NoConv EXCEPT !.kind = kind, !.input = value]

\* what the next function is applied to: the input, or the result of `after`
CanConvert(kind, after) ==
    \/ conv.kind = kind /\ conv.ops = <<>>
    \/ conv.ops = <<after>>
ConvArg == IF conv.ops = <<>> THEN conv.input ELSE conv.output
ApplyConv(op, out) ==
    /\ conv' = [conv EXCEPT !.ops = Append(@, op), !.output = out]
    /\ UNCHANGED <<wVars, aVars, steps>>

LspToTyPosition ==
    /\ CanConvert("lspPosition", "tyToLSPPosition")
    /\ ApplyConv("lspToTyPosition", lspToTyPosition(ConvArg))

TyToLSPPosition ==
    /\ CanConvert("tyPosition", "lspToTyPosition")
    /\ ApplyConv("tyToLSPPosition", tyToLSPPosition(ConvArg))

LocationLink ==
    /\ CanConvert("locationLink", "none")
    /\ ApplyConv("tyLocationLinkToLSPLocation", tyLocationLinkToLSPLocation(ConvArg))

PullSeverity ==
    /\ CanConvert("tySeverity", "none")
    /\ ApplyConv("lspSeverity", lspSeverity(ConvArg))

PushSeverity ==
    /\ CanConvert("lspSeverity", "lspSeverity")
    /\ ApplyConv("appSeverity", appSeverity(ConvArg))

RunTypeChecker ==
    /\ CanConvert("check", "none")
    /\ ApplyConv("runTypeChecker",
                 runTypeChecker(ConvArg.typeChecker, ConvArg.tyDiagnostics, ConvArg.threw))

(***************************************************************************)
(* One transport, constructed directly, under every call and event.        *)
(***************************************************************************)
EmptyWorld ==
    [tr |-> [t \in TIds |-> NoTransport], wk |-> [w \in WIds |-> NoWorker],
     ep |-> [e \in EIds |-> {}], clk |-> 0,
     sm |-> [m \in Managers |-> NoManager], cl |-> [c \in TIds |-> NoClient]]

InitObjects(S) ==
    /\ transports = S.tr
    /\ workers = S.wk
    /\ endpoints = S.ep
    /\ clock = S.clk
    /\ sm = S.sm
    /\ clients = S.cl
    /\ steps = 0
    /\ InitAdapterState

InitWorld(S) ==
    /\ InitObjects(S)
    /\ frames = [c \in TIds |-> NoFrame]
    /\ updates = [m \in Managers |-> NoUpdate]
    /\ conv = NoConv
    /\ app = NoApp

InitTransport ==
    /\ \/ \E ok \in BOOLEAN : InitWorld(BPconstructor(EmptyWorld, 1, "direct", "3.12", ok))
       \/ InitWorld(WWconstructor(EmptyWorld, 1, "direct"))
    /\ lastCall = Call("new", 1, FALSE, M0, 0)

NextTransport ==
    \E t \in {1} :
        \/ \E h \in Handlers : Subscribe(t, h)
        \/ \E h \in Handlers : Unsubscribe(t, h)
        \/ \E m \in OutboundData : Send(t, m)
        \/ Close(t)
        \/ ReadyTimeout(t)
        \/ WorkerError(t)
        \/ WorkerMessageError(t)
        \/ \E data \in InboundData : WorkerMessage(t, data)
        \/ \E ok \in BOOLEAN : SpawnRequest(t, ok)

SpecTransport == InitTransport /\ [][NextTransport]_vars

\* The browser runs the callback of setTimeout(..., 100) once the delay has
\* passed, whatever the callers of the transport do in the meantime: the timer
\* is not one of the calls the run's budget counts.
TimerFires(t) ==
    /\ transports[t].kind = "bp"
    /\ transports[t].timer
    /\ Quiescent
    /\ Apply(BPreadyTimeout(World, t))
    /\ lastCall' = Call("timeout", t, FALSE, M0, 0)
    /\ UNCHANGED <<steps, sVars>>

NextReadiness ==
    \E t \in {1} :
        \/ \E h \in Handlers : Subscribe(t, h)
        \/ \E h \in Handlers : Unsubscribe(t, h)
        \/ \E m \in OutboundData : Send(t, m)
        \/ Close(t)
        \/ TimerFires(t)
        \/ WorkerError(t)
        \/ WorkerMessageError(t)
        \/ \E data \in InboundData : WorkerMessage(t, data)
        \/ \E ok \in BOOLEAN : SpawnRequest(t, ok)

SpecReadiness ==
    /\ InitTransport
    /\ [][NextReadiness]_vars
    /\ WF_vars(\E t \in {1} : TimerFires(t))


(***************************************************************************)
(* LSPClient of @codemirror/lsp-client, as the services use it.            *)
(***************************************************************************)
NextCall(S) == 1 + Cardinality({c \in TIds : S.cl[c].state # "none"})

\* new LSPClient({rootUri, timeout, extensions})
newLSPClient(S, c) == [S EXCEPT !.cl[c] = [NoClient EXCEPT !.state = "new"]]

\* newClient.connect(newTransport): subscribes the client to the transport and
\* sends the 'initialize' request; newClient.initializing is then pending.
connect(S, c, t) ==
    LET S1 == [S EXCEPT !.cl[c].state = "connected", !.cl[c].transport = t,
                        !.cl[c].initializing = "pending"]
    IN send(subscribe(S1, t, "lsp"), t, Request("initialize", "orig"))

\* client.disconnect(): unsubscribes the client from its transport.
disconnect(S, c) ==
    LET t == S.cl[c].transport
        S1 == IF t # 0 THEN unsubscribe(S, t, "lsp") ELSE S
    IN [S1 EXCEPT !.cl[c].state = "disconnected", !.cl[c].transport = 0,
                  !.cl[c].disconnectedAt = S.clk, !.clk = S.clk + 1]

(***************************************************************************)
(* tyLSPService and basedPyrightLSPService: the module variables client,   *)
(* transport and currentPythonVersion of manager m are S.sm[m].             *)
(***************************************************************************)
\* a teardown that closes the transport and keeps the reference to it
teardown_keepReference(S, m) ==
    LET S1 == IF S.sm[m].client # 0
              THEN [disconnect(S, S.sm[m].client) EXCEPT !.sm[m].client = 0]
              ELSE S
    IN IF S1.sm[m].transport # 0 THEN close(S1, S1.sm[m].transport) ELSE S1

\* the teardown without transport.close()
teardown_keepTransport(S, m) ==
    IF S.sm[m].client # 0
    THEN [disconnect(S, S.sm[m].client) EXCEPT !.sm[m].client = 0, !.sm[m].transport = 0]
    ELSE [S EXCEPT !.sm[m].transport = 0]

\* "Close any existing client and transport FIRST"; also the whole body of
\* closeTyLSPClient / closeBasedPyrightLSPClient.
teardown(S, m) ==
    LET S1 == IF S.sm[m].client # 0
              THEN [disconnect(S, S.sm[m].client) EXCEPT !.sm[m].client = 0]
              ELSE S
    IN IF S1.sm[m].transport # 0
       THEN [close(S1, S1.sm[m].transport) EXCEPT !.sm[m].transport = 0]
       ELSE S1

\* createBasedPyrightLSPClient up to 'await newTransport.ready'
createBasedPyrightLSPClient(S, c, version, onDiagnostics, ok) ==
    LET S1 == [teardown(S, "bp") EXCEPT !.sm["bp"].currentPythonVersion = version]
        S2 == BPconstructor(newLSPClient(S1, c), c, "bp", version, ok)
    IN IF onDiagnostics THEN subscribe(S2, c, "diag") ELSE S2

\* createTyLSPClient up to 'await newClient.initializing'; ok = FALSE: new Worker
\* throws inside the WebWorkerTransport constructor and the call rejects.
createTyLSPClient(S, c, version, ok) ==
    LET S1 == [teardown(S, "ty") EXCEPT !.sm["ty"].currentPythonVersion = version]
        S2 == newLSPClient(S1, c)
    IN IF ok THEN connect(WWconstructor(S2, c, "ty"), c, c) ELSE S2

createSync(S, m, c, version, onDiagnostics, ok) ==
    IF m = "bp" THEN createBasedPyrightLSPClient(S, c, version, onDiagnostics, ok)
    ELSE createTyLSPClient(S, c, version, ok)

FirstAwait(m, ok) ==
    IF m = "bp" THEN "awaitReady" ELSE IF ok THEN "awaitInit" ELSE "rejected"

\* onDiagnostics: the caller passed a callback; replaced: the client of the
\* session a version update tore down to make this call (0: a call of the host).
NewFrame(m, ok, version, onDiagnostics, replaced) ==
    [pc |-> FirstAwait(m, ok), mgr |-> m,
     oldClient |-> sm[m].client, oldTransport |-> sm[m].transport,
     pythonVersion |-> version, onDiagnostics |-> onDiagnostics, replaced |-> replaced]

PendingUpdates == Cardinality({m \in Managers : updates[m].pc # "none"})

\* A call of createTyLSPClient / createBasedPyrightLSPClient, run to its first await.
Create(m, version, onDiagnostics, ok) ==
    /\ NextCall(World) + PendingUpdates <= MaxTransports
    /\ m = "ty" => ~onDiagnostics          \* TyLSPOptions has no onDiagnostics
    /\ LET c == NextCall(World)
       IN /\ Event(createSync(World, m, c, version, onDiagnostics, ok),
                   Call("create", c, FALSE, M0, 0))
          /\ frames' = [frames EXCEPT ![c] = NewFrame(m, ok, version, onDiagnostics, 0)]
    /\ UNCHANGED updates

\* createBasedPyrightLSPClient after 'await newTransport.ready'
CreateAfterReady(c) ==
    /\ frames[c].pc = "awaitReady"
    /\ transports[c].ready # "pending"
    /\ IF transports[c].ready = "resolved"
       THEN /\ Apply(connect(World, c, c))
            /\ frames' = [frames EXCEPT ![c].pc = "awaitInit"]
       ELSE /\ Apply(World)
            /\ frames' = [frames EXCEPT ![c].pc = "rejected"]
    /\ UNCHANGED <<lastCall, steps, updates>>

\* both creates after 'await newClient.initializing'
CreateAfterInit(c) ==
    /\ frames[c].pc = "awaitInit"
    /\ clients[c].initializing # "pending"
    /\ IF clients[c].initializing = "resolved"
       THEN /\ Apply([World EXCEPT !.sm[frames[c].mgr].client = c,
                                   !.sm[frames[c].mgr].transport = c])
            /\ frames' = [frames EXCEPT ![c].pc = "returned"]
       ELSE /\ Apply(World)
            /\ frames' = [frames EXCEPT ![c].pc = "rejected"]
    /\ UNCHANGED <<lastCall, steps, updates>>

\* closeTyLSPClient / closeBasedPyrightLSPClient
CloseSession(m) ==
    /\ Event(teardown(World, m),
             [Call("closeSession", sm[m].transport, FALSE, M0, 0) EXCEPT !.mgr = m])
    /\ UNCHANGED sVars

\* updatePythonVersion / updateBasedPyrightPythonVersion up to 'await close...()'
Update(m, version) ==
    /\ NextCall(World) + PendingUpdates <= MaxTransports
    /\ LET same == sm[m].currentPythonVersion = version
           recreate == ~same /\ sm[m].client # 0
           S1 == IF same THEN World
                 ELSE [World EXCEPT !.sm[m].currentPythonVersion = version]
       IN /\ Event(IF recreate THEN teardown(S1, m) ELSE S1,
                   [Call("update", 0, FALSE, M0, 0) EXCEPT !.mgr = m, !.version = version])
          /\ updates' = IF recreate
                        THEN [updates EXCEPT ![m] = [pc |-> "afterClose", version |-> version,
                                                     replaced |-> sm[m].client]]
                        ELSE updates
    /\ UNCHANGED frames

\* ... and its 'await create...({ pythonVersion: version })'
UpdateResume(m, ok) ==
    /\ updates[m].pc = "afterClose"
    /\ LET c == NextCall(World)
       IN /\ Apply(createSync(World, m, c, updates[m].version, FALSE, ok))
          /\ frames' = [frames EXCEPT ![c] = NewFrame(m, ok, updates[m].version, FALSE, updates[m].replaced)]
    /\ updates' = [updates EXCEPT ![m] = NoUpdate]
    /\ UNCHANGED <<lastCall, steps>>

\* The worker's response to the 'initialize' request arrives as a message event.
InitializeResponse(t) ==
    /\ Live(t)
    /\ "message" \in transports[t].listeners
    /\ clients[t].state = "connected"
    /\ clients[t].initializing = "pending"
    /\ LET S1 == onmessage(World, t, Rpc(1))
           S2 == IF "lsp" \in Range(transports[t].handlers)
                 THEN [S1 EXCEPT !.cl[t].initializing = "resolved"]
                 ELSE S1
       IN Event(S2, Call("message", t, FALSE, Rpc(1), Invoked(S1, t)))
    /\ UNCHANGED sVars

\* The 'initialize' request times out (LSPClient timeout) or is answered by an error.
InitializeFailed(c) ==
    /\ clients[c].initializing = "pending"
    /\ Event([World EXCEPT !.cl[c].initializing = "rejected"],
             Call("initializeFailed", c, FALSE, M0, 0))
    /\ UNCHANGED sVars

(***************************************************************************)
(* The two session managers under every interleaving of their calls with   *)
(* the events of the transports they created.                              *)
(***************************************************************************)
InitSession ==
    /\ InitWorld(EmptyWorld)
    /\ lastCall = Call("none", 0, FALSE, M0, 0)

NextSession ==
    \/ \E m \in Managers, v \in Versions, d \in BOOLEAN, ok \in BOOLEAN : Create(m, v, d, ok)
    \/ \E c \in TIds : CreateAfterReady(c)
    \/ \E c \in TIds : CreateAfterInit(c)
    \/ \E m \in Managers : CloseSession(m)
    \/ \E m \in Managers, v \in Versions : Update(m, v)
    \/ \E m \in Managers, ok \in BOOLEAN : UpdateResume(m, ok)
    \/ \E t \in TIds : ReadyTimeout(t)
    \/ \E t \in TIds : WorkerError(t)
    \/ \E t \in TIds : WorkerMessageError(t)
    \/ \E t \in TIds : InitializeResponse(t)
    \/ \E c \in TIds : InitializeFailed(c)

SpecSession == InitSession /\ [][NextSession]_vars

(***************************************************************************)
(* The adapter of one ty worker under every sequence of inbound messages.  *)
(***************************************************************************)
InitAdapter ==
    /\ InitWorld(EmptyWorld)
    /\ lastCall = Call("none", 0, FALSE, M0, 0)

NextAdapter ==
    \/ \E message \in AdapterMessages, fail \in Failures : AdapterMessage(message, fail)
    \/ \E fail \in Failures : InitializeResume(fail)

SpecAdapter == InitAdapter /\ [][NextAdapter]_vars

(***************************************************************************)
(* The conversions and the checker services, applied to every input of a   *)
(* bounded set.                                                            *)
(***************************************************************************)
Chars_workspace_main_py ==
    <<"w", "o", "r", "k", "s", "p", "a", "c", "e", "/", "m", "a", "i", "n", ".", "p", "y">>
PathHeads ==
    {<<>>, <<"/">>, <<"/", "/">>, <<"f", "i", "l", "e">>, <<"f", "i", "l", "e", ":">>,
     <<"f", "i", "l", "e", ":", "/">>, FileScheme, FileScheme \o <<"/">>,
     <<"/", "f", "i", "l", "e">>, <<"/", "f", "i", "l", "e", ":">>, FileMarker,
     FileMarker \o <<"/">>, <<"h", "t", "t", "p", ":", "/", "/">>}
PathTails == {<<>>, <<"m">>, Chars_workspace_main_py}
Paths == {head \o tail : head \in PathHeads, tail \in PathTails}

TyDiagnosticLists ==
    {<<>>} \cup {<<TyDiagnostic(r, s, "m1")>> : r \in TyRanges \cup {NoRange}, s \in Severities}
           \cup {<<TyDiagnostic(NoRange, s, "m1"), TyDiagnostic(r, SeverityError, "m2")>> :
                    r \in TyRanges, s \in Severities}

InitConvert ==
    /\ InitObjects(EmptyWorld)
    /\ frames = [c \in TIds |-> NoFrame]
    /\ updates = [m \in Managers |-> NoUpdate]
    /\ lastCall = Call("none", 0, FALSE, M0, 0)
    /\ app = NoApp
    /\ \/ \E pos \in LSPPositions : conv = Input("lspPosition", pos)
       \/ \E pos \in TyPositions : conv = Input("tyPosition", pos)
       \/ \E path \in Paths, range \in TyRanges :
              conv = Input("locationLink", [path |-> path, full_range |-> range])
       \/ \E severity \in Severities : conv = Input("tySeverity", severity)
       \/ \E severity \in Severities : conv = Input("lspSeverity", severity)
       \/ \E typeChecker \in TypeCheckers, tyDiagnostics \in TyDiagnosticLists,
             threw \in BOOLEAN :
              conv = Input("check", [typeChecker |-> typeChecker,
                                     tyDiagnostics |-> tyDiagnostics, threw |-> threw])

NextConvert ==
    \/ LspToTyPosition
    \/ TyToLSPPosition
    \/ LocationLink
    \/ PullSeverity
    \/ PushSeverity
    \/ RunTypeChecker

SpecConvert == InitConvert /\ [][NextConvert]_vars

(***************************************************************************)
(* Diagnostics push: a session that has finished initializing, under the   *)
(* session calls and the notifications of its worker.                      *)
(***************************************************************************)
\* The subscriber createBasedPyrightLSPClient registers when onDiagnostics is
\* given: the sequence of argument lists it calls onDiagnostics with.
diagHandler(message) ==
    IF JSONparseThrows(message) THEN <<>>
    ELSE LET data == JSONparse(message)
         IN IF data.tag = "null" THEN <<>>            \* data.method throws, caught
            ELSE IF data.method = "textDocument/publishDiagnostics" /\ data.params # "none"
            THEN <<data.params>>
            ELSE <<>>

\* the handler invocations made by the step that leads to S
NewDeliveries(S, t) ==
    SubSeq(S.tr[t].delivered, Len(transports[t].delivered) + 1, Len(S.tr[t].delivered))
\* ... and the onDiagnostics invocations among them
onDiagnosticsCalls(S, t) ==
    LET ds == SelectSeq(NewDeliveries(S, t), LAMBDA d : d.h = "diag")
    IN IF ds = <<>> THEN <<>> ELSE diagHandler(ds[1].msg)

\* The worker pushes a 'textDocument/publishDiagnostics' notification.
PublishDiagnostics(t, p) ==
    /\ Live(t)
    /\ "message" \in transports[t].listeners
    /\ LET data == PublishDiagnosticsMsg(p)
           S1 == onmessage(World, t, data)
       IN Event(S1, [Call("publish", t, FALSE, data, Invoked(S1, t))
                        EXCEPT !.diag = onDiagnosticsCalls(S1, t)])
    /\ UNCHANGED sVars

\* The world after create...({pythonVersion: version, onDiagnostics}) has run to
\* its return: worker booted, client connected and initialized, pair stored.
Established(m, version, onDiagnostics) ==
    LET S1 == createSync(EmptyWorld, m, 1, version, onDiagnostics, TRUE)
        S2 == IF m = "bp" THEN connect(BPreadyTimeout(S1, 1), 1, 1) ELSE S1
        S3 == [onmessage(S2, 1, Rpc(1)) EXCEPT !.cl[1].initializing = "resolved"]
    IN [S3 EXCEPT !.sm[m].client = 1, !.sm[m].transport = 1]

InitDiagnostics ==
    \E m \in Managers, version \in Versions, onDiagnostics \in BOOLEAN :
        /\ m = "ty" => ~onDiagnostics
        /\ InitObjects(Established(m, version, onDiagnostics))
        /\ frames = [c \in TIds |->
                        IF c = 1 THEN [NoFrame EXCEPT !.pc = "returned", !.mgr = m,
                                                      !.pythonVersion = version,
                                                      !.onDiagnostics = onDiagnostics]
                        ELSE NoFrame]
        /\ updates = [mm \in Managers |-> NoUpdate]
        /\ lastCall = Call("none", 0, FALSE, M0, 0)
        /\ conv = NoConv
        /\ app = NoApp

NextDiagnostics ==
    \/ NextSession
    \/ \E t \in TIds, p \in DiagnosticsPayloads : PublishDiagnostics(t, p)

SpecDiagnostics == InitDiagnostics /\ [][NextDiagnostics]_vars

(***************************************************************************)
(* The App component: the LSP effect and the type-check effect, both keyed  *)
(* on the selection.  An event handler, a timer callback and a worker event *)
(* are tasks; the continuation of an await whose promise is already settled *)
(* is a microtask and runs before the next task.                            *)
(***************************************************************************)
LSPCheckers == {"ty", "basedpyright"}
ManagerOf(typeChecker) == IF typeChecker = "ty" THEN "ty" ELSE "bp"

\* cleanup of the LSP effect: cancelled = true; closeTyLSPClient();
\* closeBasedPyrightLSPClient(); setLspClient(null).  The effect of a selection
\* that is not LSP-backed returns no cleanup.
cleanupLSP(S, A) ==
    IF A.typeChecker \in LSPCheckers THEN teardown(teardown(S, "ty"), "bp") ELSE S
cancelLSP(A) ==
    IF A.typeChecker \in LSPCheckers /\ A.lsp # 0
    THEN [A EXCEPT !.cancelled = @ \cup {A.lsp}, !.lsp = 0]
    ELSE [A EXCEPT !.lsp = 0]

\* cleanup of the check effect (cancelled = true; clearTimeout) and its next
\* run (setTimeout(checkCode, 500))
restartCheck(A) ==
    [A EXCEPT !.check = IF @.pc = "await" THEN [@ EXCEPT !.cancelled = TRUE] ELSE @,
              !.debounce = TRUE]

\* the lspClient state: set by initLSP after its create call returned, if the
\* effect has not been cleaned up by then
lspClient == IF app.lsp # 0 /\ frames[app.lsp].pc = "returned" THEN app.lsp ELSE 0

\* what one task of the App does to the world, the create calls and the App
ApplyApp(S, F, A, call) ==
    /\ Quiescent
    /\ steps < MaxAppEvents
    /\ steps' = steps + 1
    /\ transports' = S.tr
    /\ workers' = S.wk
    /\ endpoints' = S.ep
    /\ clock' = S.clk
    /\ sm' = S.sm
    /\ clients' = S.cl
    /\ frames' = F
    /\ app' = A
    /\ lastCall' = call
    /\ UNCHANGED <<updates, aVars, conv>>

\* setTypeChecker / setPythonVersion: both effects are cleaned up and run again.
\* ok = FALSE: the Worker constructor throws inside the create call.
Select(typeChecker, version, ok) ==
    /\ <<typeChecker, version>> # <<app.typeChecker, app.pythonVersion>>
    /\ LET S1 == cleanupLSP(World, app)
           A1 == [restartCheck(cancelLSP(app)) EXCEPT !.typeChecker = typeChecker,
                                                      !.pythonVersion = version]
           m == ManagerOf(typeChecker)
           c == NextCall(S1)
           onDiagnostics == typeChecker = "basedpyright"
       IN IF typeChecker \in LSPCheckers
          THEN /\ c <= MaxTransports
               /\ ApplyApp(createSync(S1, m, c, version, onDiagnostics, ok),
                           [frames EXCEPT ![c] =
                               [NewFrame(m, ok, version, onDiagnostics, 0)
                                   EXCEPT !.oldClient = S1.sm[m].client,
                                          !.oldTransport = S1.sm[m].transport]],
                           [A1 EXCEPT !.lsp = c],
                           Call("select", c, FALSE, M0, 0))
          ELSE /\ ok
               /\ ApplyApp(S1, frames, A1, Call("select", 0, FALSE, M0, 0))

\* setCode: only the check effect is cleaned up and run again
EditCode ==
    /\ app.typeChecker \in TypeCheckers
    /\ ApplyApp(World, frames, restartCheck(app), Call("edit", 0, FALSE, M0, 0))

\* checkCode up to 'await runTypeChecker(...)'
checkCode(A) ==
    IF A.typeChecker \in LSPCheckers THEN [A EXCEPT !.debounce = FALSE]
    ELSE [A EXCEPT !.debounce = FALSE, !.isChecking = TRUE, !.check = [NoCheck EXCEPT !.pc = "await"]]

\* a finally block that leaves the flag as it is
checkCodeResume_keepFlag(A) ==
    LET A1 == IF ~A.check.cancelled
              THEN [A EXCEPT !.diagnostics = [by |-> "check", frame |-> 0]]
              ELSE A
    IN [A1 EXCEPT !.check = NoCheck]

\* ... and after it: setDiagnostics(results) and, in the finally block,
\* setIsChecking(false), both only if (!cancelled)
checkCodeResume(A) ==
    LET A1 == IF ~A.check.cancelled
              THEN [A EXCEPT !.diagnostics = [by |-> "check", frame |-> 0]]
              ELSE A
        A2 == IF ~A1.check.cancelled THEN [A1 EXCEPT !.isChecking = FALSE] ELSE A1
    IN [A2 EXCEPT !.check = NoCheck]

\* the debounce timer fires
DebounceFires ==
    /\ app.debounce
    /\ ApplyApp(World, frames, checkCode(app), Call("checkCode", 0, FALSE, M0, 0))

\* runTypeChecker returns what checkWithPyright / checkWithPyrefly return, and
\* neither of them awaits anything: the promise is settled when checkCode
\* awaits it and checkCode resumes as a microtask.
CheckResume ==
    /\ app.check.pc = "await"
    /\ app' = checkCodeResume(app)
    /\ UNCHANGED <<transports, workers, endpoints, clock, sm, clients, lastCall, steps,
                   frames, updates, aVars, conv>>

\* the onDiagnostics closure of the effect that made create call t:
\* setDiagnostics(appDiagnostics); setIsChecking(false)
onDiagnostics(A, t) ==
    [A EXCEPT !.diagnostics = [by |-> "push", frame |-> t], !.isChecking = FALSE]

\* The worker of transport t pushes a 'textDocument/publishDiagnostics'.
AppPublish(t, p) ==
    /\ Live(t)
    /\ "message" \in transports[t].listeners
    /\ LET data == PublishDiagnosticsMsg(p)
           S1 == onmessage(World, t, data)
           calls == onDiagnosticsCalls(S1, t)
       IN ApplyApp(S1, frames,
                   IF calls # <<>> THEN onDiagnostics(app, t) ELSE app,
                   [Call("publish", t, FALSE, data, Invoked(S1, t)) EXCEPT !.diag = calls])

\* The component mounts with typeChecker 'ty' and pythonVersion '3.12'.
InitApp ==
    \E ok \in BOOLEAN :
        /\ InitObjects(createSync(EmptyWorld, "ty", 1, "3.12", FALSE, ok))
        /\ frames = [c \in TIds |->
                        IF c = 1 THEN [pc |-> FirstAwait("ty", ok), mgr |-> "ty",
                                       oldClient |-> 0, oldTransport |-> 0,
                                       pythonVersion |-> "3.12", onDiagnostics |-> FALSE,
                                       replaced |-> 0]
                        ELSE NoFrame]
        /\ updates = [m \in Managers |-> NoUpdate]
        /\ lastCall = Call("none", 0, FALSE, M0, 0)
        /\ conv = NoConv
        /\ app = [NoApp EXCEPT !.typeChecker = "ty", !.pythonVersion = "3.12",
                               !.lsp = 1, !.debounce = TRUE]

NextApp ==
    \/ \E typeChecker \in TypeCheckers, version \in Versions, ok \in BOOLEAN :
           Select(typeChecker, version, ok)
    \/ EditCode
    \/ DebounceFires
    \/ CheckResume
    \/ \E t \in TIds, p \in DiagnosticsPayloads : AppPublish(t, p)
    \/ \E c \in TIds : CreateAfterReady(c)
    \/ \E c \in TIds : CreateAfterInit(c)
    \/ \E t \in TIds : TimerFires(t)
    \/ \E t \in TIds : InitializeResponse(t)
    \/ \E c \in TIds : InitializeFailed(c)

SpecApp == InitApp /\ [][NextApp]_vars /\ WF_vars(CheckResume)

(***************************************************************************)
(* Properties                                                              *)
(***************************************************************************)
BPs == {t \in TIds : transports[t].kind = "bp"}
WWs == {t \in TIds : transports[t].kind = "ww"}
WorkersOf(t) == {w \in WIds : workers[w].state # "none" /\ workers[w].owner = t}
Satellites(t) == {w \in WorkersOf(t) : workers[w].role = "bg"}

HasLiveWorker(t) == \E w \in WorkersOf(t) : workers[w].state = "running"
CreatedBy(m) == {t \in TIds : transports[t].owner = m}

\* C1: for each session manager at most one transport it created still has live
\* workers, under every interleaving of create, close and update calls, also
\* calls made while an earlier create is still awaiting.
C1_AtMostOneLiveTransport ==
    \A m \in Managers : Cardinality({t \in CreatedBy(m) : HasLiveWorker(t)}) <= 1

\* C2: multi-worker transport: once close() has been called, every worker the
\* transport ever constructed (primary and satellites) has been terminated, exactly
\* once, whatever messages arrive before or after the close.
C2_AllWorkersTerminatedOnce ==
    \A t \in BPs :
        transports[t].closeCalls > 0 =>
            \A w \in WorkersOf(t) :
                workers[w].state = "terminated" /\ workers[w].terminations = 1

\* C3 as stated: after N spawn requests the transport owns exactly N satellites,
\* each booted exactly once with mode 'background', the request's initialData and
\* its own endpoint.
BootedBy(w, k) == workers[w].inbox = <<BootMsg("background", InitialData(k), k)>>
C3_FanOutOriginal ==
    \A t \in BPs :
        /\ Len(transports[t].backgroundWorkers) = transports[t].nSpawn
        /\ \A k \in 1..transports[t].nSpawn :
               \E w \in Range(transports[t].backgroundWorkers) : BootedBy(w, k)

\* C3 amended: after N spawn requests of which F failed at Worker construction the
\* transport has constructed exactly N - F satellites, which are its
\* backgroundWorkers while it has not been closed; each satellite has received
\* exactly one boot message, with mode 'background', its request's initialData and
\* an endpoint no other satellite has.
C3_FanOut ==
    \A t \in BPs :
        /\ Cardinality(Satellites(t)) = transports[t].nSpawn - transports[t].spawnErrors
        /\ ~transports[t].closed => Range(transports[t].backgroundWorkers) = Satellites(t)
        /\ ~transports[t].closed =>
               Len(transports[t].backgroundWorkers) = Cardinality(Satellites(t))
        /\ \A w \in Satellites(t) : \E k \in 1..transports[t].nSpawn : BootedBy(w, k)
        /\ \A w1, w2 \in Satellites(t) :
               w1 # w2 => workers[w1].inbox[1].port # workers[w2].inbox[1].port

C3_Witness ==
    \E t \in BPs :
        /\ transports[t].nSpawn = 2
        /\ Len(transports[t].backgroundWorkers) = 2
        /\ \A k \in 1..2 : \E w \in Satellites(t) : BootedBy(w, k)

\* C4: an endpoint has at most one owner, is never sent to two workers, and is
\* not owned by the transport (context 0) once a boot message carrying it has
\* been posted.
BootsWith(e) ==
    {<<w, i>> \in WIds \X (1..MaxEvents + 1) :
        /\ i <= Len(workers[w].inbox)
        /\ workers[w].inbox[i].type = "browser/boot"
        /\ workers[w].inbox[i].port = e}
C4_EndpointSingleOwner ==
    \A e \in EIds :
        /\ Cardinality(endpoints[e]) <= 1
        /\ Cardinality(BootsWith(e)) <= 1
        /\ BootsWith(e) # {} => 0 \notin endpoints[e]

C4_Witness ==
    \E e \in EIds, w \in WIds :
        /\ endpoints[e] = {w}
        /\ workers[w].role = "bg"
        /\ BootsWith(e) = {<<w, 1>>}

\* C5: the ready signal resolves at the first protocol-conformant message from
\* the primary worker if the grace-period timer has not elapsed before it.
C5_ReadyOnFirstProtocolMessage ==
    \A t \in BPs : transports[t].rpcSeen => transports[t].ready # "pending"

\* C6: on either transport onClose is invoked at most once in the transport's life.
C6_OnCloseAtMostOnce ==
    \A t \in TIds : transports[t].onClose <= 1

\* C7: single-worker transport: when a close() call has returned, the worker has
\* been terminated, exactly once, the handler set is empty and the call did not throw.
C7_CloseTerminatesWorker ==
    \A t \in WWs :
        (lastCall.op = "close" /\ lastCall.t = t) =>
            /\ workers[transports[t].worker].state = "terminated"
            /\ workers[transports[t].worker].terminations = 1
            /\ transports[t].handlers = <<>>
            /\ ~lastCall.threw

\* C8: a send() after close() throws and posts nothing.
SendAfterCloseFails ==
    \A t \in TIds :
        (lastCall.op = "send" /\ lastCall.t = t /\ transports[t].closeCalls > 0) =>
            lastCall.threw /\ lastCall.posted = 0

\* C8 as stated: ... and isClosed() is false before the first close() and true after.
C8_Original ==
    /\ SendAfterCloseFails
    /\ \A t \in TIds : Live(t) => (isClosed(World, t) <=> transports[t].closeCalls > 0)

\* C8 amended: a send() after close() throws and posts nothing; isClosed() is false
\* until the first close() call or, on the single-worker transport, the first
\* messageerror event, and true in every state after it.
C8_SendAfterClose ==
    /\ SendAfterCloseFails
    /\ \A t \in TIds :
           Live(t) => (isClosed(World, t) <=>
                          (transports[t].closeCalls > 0 \/ transports[t].msgErrors > 0))

C8_Witness ==
    /\ lastCall.op = "send"
    /\ lastCall.threw
    /\ transports[lastCall.t].closeCalls > 0
    /\ isClosed(World, lastCall.t)

\* C9 as stated: subscribers are invoked for an inbound message only if it is a
\* structured object with jsonrpc === '2.0'; strings, null and control messages
\* invoke no subscriber.
IsProtocolObject(data) == IsObject(data) /\ data.jsonrpc = "2.0"
C9_Original ==
    lastCall.op \in {"message", "spawn"} =>
        (lastCall.invoked > 0 => IsProtocolObject(lastCall.data))

\* C9 amended: subscribers are invoked only for a structured object with
\* jsonrpc === '2.0' or, on the single-worker transport, for a string that parses
\* as JSON to such an object; every other inbound message invokes no subscriber.
IsProtocolString(data) ==
    /\ IsString(data)
    /\ ~JSONparseThrows(data)
    /\ IsProtocolObject(JSONparse(data))
C9_InboundFilter ==
    lastCall.op \in {"message", "spawn"} =>
        (lastCall.invoked > 0 =>
            \/ IsProtocolObject(lastCall.data)
            \/ transports[lastCall.t].kind = "ww" /\ IsProtocolString(lastCall.data))

C9_Witness ==
    /\ lastCall.op = "message"
    /\ transports[lastCall.t].kind = "ww"
    /\ IsProtocolString(lastCall.data)
    /\ lastCall.invoked = 2


\* C10: whenever create is called while the manager holds a pair, the held client
\* is disconnected and the held transport closed, with its workers terminated,
\* before the worker of the new transport is constructed; and the manager's stored
\* pair is a new pair only once that pair's client has finished initializing.
TornDownBefore(c) ==
    LET oc == frames[c].oldClient
        ot == frames[c].oldTransport
    IN /\ oc # 0 =>
              /\ clients[oc].state = "disconnected"
              /\ \A w \in WorkersOf(c) : clients[oc].disconnectedAt < workers[w].bornAt
       /\ ot # 0 =>
              /\ transports[ot].closed
              /\ \A w \in WorkersOf(ot) :
                     /\ workers[w].state = "terminated"
                     /\ \A w2 \in WorkersOf(c) : workers[w].diedAt < workers[w2].bornAt
StoredAfterInit(m) ==
    sm[m].client # 0 =>
        /\ sm[m].transport = sm[m].client
        /\ clients[sm[m].client].initializing = "resolved"
        /\ frames[sm[m].client].pc = "returned"
C10_TeardownBeforeConstruct ==
    /\ \A c \in TIds : frames[c].pc # "none" => TornDownBefore(c)
    /\ \A m \in Managers : StoredAfterInit(m)

\* C10 for the basedpyright manager alone.
C10_TeardownBeforeConstructBP ==
    /\ \A c \in TIds : frames[c].mgr = "bp" => TornDownBefore(c)
    /\ StoredAfterInit("bp")

\* C11: for the session active on a manager a diagnostics callback was registered
\* with, after the initial create and after a version update has recreated the
\* session, every publishDiagnostics notification the active transport forwards
\* invokes the callback exactly once, with the notification's diagnostics.
RECURSIVE Registered(_)
Registered(c) ==
    \/ frames[c].onDiagnostics
    \/ frames[c].replaced # 0 /\ Registered(frames[c].replaced)
C11_DiagnosticsRouted ==
    \A m \in Managers :
        (/\ lastCall.op = "publish"
         /\ sm[m].transport = lastCall.t
         /\ Registered(lastCall.t)) =>
            lastCall.diag = <<lastCall.data.params>>

\* C11 for the session of the create call the callback was passed to.
C11_RoutedInCreatedSession ==
    \A m \in Managers :
        (/\ lastCall.op = "publish"
         /\ sm[m].transport = lastCall.t
         /\ frames[lastCall.t].mgr = m
         /\ frames[lastCall.t].onDiagnostics) =>
            lastCall.diag = <<lastCall.data.params>>

\* C12: when a session is created with language version v the engine in the worker
\* is started with v: the Workspace the ty adapter constructs on the session's
\* 'initialize' request has 'python-version' v, and the pyrightconfig.json injected
\* into the basedpyright session's 'initialize' request has pythonVersion v.
AsRequest(msg) ==
    [R0 EXCEPT !.jsonrpc = msg.jsonrpc, !.method = msg.method, !.id = "1",
               !.params = (msg.params # "none"), !.initVersion = msg.initVersion]
EngineVersion(msg) ==
    LET A == handleRequest(NewAdapter, AsRequest(msg), "none")
    IN A.engine.workspaces[A.workspace]
InitializeRequests(c) ==
    {msg \in UNION {Range(workers[w].inbox) : w \in WorkersOf(c)} : msg.method = "initialize"}
C12_VersionReachesEngine ==
    \A c \in TIds :
        \A msg \in InitializeRequests(c) :
            IF transports[c].kind = "bp"
            THEN msg.configVersion = frames[c].pythonVersion
            ELSE EngineVersion(msg) = frames[c].pythonVersion

\* C12 for the basedpyright sessions alone.
C12_BasedPyrightConfig ==
    \A c \in BPs :
        \A msg \in InitializeRequests(c) : msg.configVersion = frames[c].pythonVersion

\* C13 as stated: update(v) does nothing when v is the manager's current version;
\* when v differs and a client is active the pair is torn down (client disconnected,
\* transport closed) and exactly one new pair is created with version v; when v
\* differs and no client is active only the recorded version changes and no worker
\* is created.
IsUpdateCall(m) == steps' = steps + 1 /\ lastCall'.op = "update" /\ lastCall'.mgr = m
NumClients == Cardinality({c \in TIds : clients[c].state # "none"})
NumTransports == Cardinality({t \in TIds : Live(t)})
NumWorkers == Cardinality({w \in WIds : workers[w].state # "none"})
UpdateCallOK(m) ==
    LET v == lastCall'.version
    IN IF sm[m].currentPythonVersion = v
       THEN UNCHANGED <<transports, workers, endpoints, clock, sm, clients, frames, updates>>
       ELSE IF sm[m].client = 0
       THEN /\ sm' = [sm EXCEPT ![m].currentPythonVersion = v]
            /\ UNCHANGED <<transports, workers, endpoints, clock, clients, frames, updates>>
       ELSE /\ clients'[sm[m].client].state = "disconnected"
            /\ transports'[sm[m].transport].closed
            /\ sm'[m] = [NoManager EXCEPT !.currentPythonVersion = v]
            /\ NumClients' = NumClients /\ NumTransports' = NumTransports
            /\ NumWorkers' = NumWorkers
            /\ updates'[m].pc = "afterClose"
IsRecreate(m) == updates[m].pc = "afterClose" /\ updates'[m].pc = "none"
RecreatesClient(m) ==
    LET c == NumClients + 1
    IN /\ NumClients' = NumClients + 1
       /\ frames'[c].mgr = m
       /\ frames'[c].pythonVersion = updates[m].version
       /\ sm'[m].currentPythonVersion = updates[m].version
       /\ transports'[c].kind = "bp" => transports'[c].pythonVersion = updates[m].version
       /\ \A t \in TIds \ {c} : transports'[t] = transports[t]
HasNewTransport == transports'[NumClients + 1].kind # "none"
FailedConstruction(t) == {w \in WorkersOf(t) : workers[w].role = "fg"} = {}
RuntimeErrorReported(t) ==
    (lastCall.op = "error" /\ lastCall.t = t) =>
        /\ transports[t].onError >= 1
        /\ transports[t].ready \in {"rejected", "resolved"}
        /\ ~lastCall.threw
C20_ErrorsReported ==
    \A t \in BPs :
        /\ FailedConstruction(t) =>
               transports[t].onError >= 1 /\ transports[t].ready = "rejected"
        /\ RuntimeErrorReported(t)

\* C20 for the runtime error event alone, and the readiness after a failed construction.
C20_RuntimeErrorsReported ==
    \A t \in BPs :
        /\ FailedConstruction(t) => transports[t].ready = "rejected"
        /\ RuntimeErrorReported(t)

\* ---- the engine adapter ----------------------------------------------------
\* A step that handles a message to its end: a message event whose handling does
\* not suspend, or the continuation of a suspended 'initialize'.
ResumeStep == pending # <<>> /\ pending' = Tail(pending) /\ steps' = steps
HandlingStep == (steps' = steps + 1 /\ lastMsg'.phase = "handled") \/ ResumeStep
ResponseTo(request, result) ==
    [P0 EXCEPT !.kind = "response", !.id = request.id, !.result = result]
ErrorTo(request, code, message) ==
    [P0 EXCEPT !.kind = "error", !.id = request.id, !.code = code, !.message = message]
HasHandle(uri) == workspace # 0 /\ fileHandles[uri] # 0

\* C14: after any sequence of didOpen / didChange / didClose messages each URI has
\* at most one engine file handle that was opened and has not been closed, also
\* when didOpen arrives again for a URI that is already open.
OpenHandles(uri) ==
    {h \in 1..Len(engine.files) :
        engine.files[h].uri = uri /\ engine.files[h].closeFile = 0}
C14_OneLiveHandle == \A uri \in URIs : Cardinality(OpenHandles(uri)) <= 1

\* C15: didOpen with text A gives the URI a handle whose engine text is A; a
\* didChange for it then makes the engine text exactly the replacement text B (the
\* first entry of the change list) and changes nothing else; a diagnostics pull
\* is computed from the engine's current text of the handle alone; a didChange
\* for a URI with no handle, or with an empty change list, changes nothing.
C15_WholeDocumentChange ==
    [][HandlingStep =>
         LET r == lastMsg'.request
             ok == r.params /\ lastMsg'.fail = "none"
         IN /\ (r.method = "textDocument/didOpen" /\ ok /\ workspace # 0) =>
                   /\ fileHandles'[r.uri] # 0
                   /\ engine'.files[fileHandles'[r.uri]].text = r.text
            /\ (r.method = "textDocument/didChange" /\ ok) =>
                   IF HasHandle(r.uri) /\ r.changes # <<>>
                   THEN /\ engine' = [engine EXCEPT
                                          !.files[fileHandles[r.uri]].text = r.changes[1]]
                        /\ UNCHANGED <<workspace, fileHandles, pythonVersion>>
                        /\ lastMsg'.out = <<>>
                   ELSE /\ UNCHANGED <<workspace, fileHandles, pythonVersion, engine>>
                        /\ lastMsg'.out = <<>>
            /\ (r.method = "textDocument/diagnostic" /\ ok /\ HasHandle(r.uri)) =>
                   lastMsg'.out =
                       <<ResponseTo(r, EngineResult(Adapter, r.method, fileHandles[r.uri]))>>
      ]_vars

C15_Witness ==
    /\ lastMsg.request.method = "textDocument/diagnostic"
    /\ Len(lastMsg.out) = 1
    /\ lastMsg.out[1].result.items # <<>>
    /\ \A i \in 1..Len(lastMsg.out[1].result.items) :
           lastMsg.out[1].result.items[i].message = "B"
    /\ engine.files[fileHandles[lastMsg.request.uri]].text = "B"

\* C16: after didClose for an open URI closeFile has been called on the URI's
\* handle and the URI has no entry in the handle map; only a didOpen gives it an
\* entry again, and until then every document request for it gets the empty or
\* null result.
EmptyResults == {EmptyFull, NullResult, EmptyItems, EmptyArray}
ClosesHandle(r) ==
    /\ engine'.files[fileHandles[r.uri]].closeFile =
           engine.files[fileHandles[r.uri]].closeFile + 1
    /\ fileHandles'[r.uri] = 0
StaysClosed(r) ==
    /\ \A uri \in URIs :
           (fileHandles[uri] = 0 /\ fileHandles'[uri] # 0) =>
               r.method = "textDocument/didOpen" /\ r.uri = uri
    /\ (r.method \in DocumentMethods /\ r.params /\ fileHandles[r.uri] = 0) =>
           /\ Len(lastMsg'.out) = 1
           /\ lastMsg'.out[1].kind = "response"
           /\ lastMsg'.out[1].result \in EmptyResults
C16_CloseInvalidates ==
    [][HandlingStep =>
         LET r == lastMsg'.request
         IN /\ (r.method = "textDocument/didClose" /\ r.params /\ HasHandle(r.uri)) =>
                   ClosesHandle(r)
            /\ StaysClosed(r)
      ]_vars

\* C16 when closeFile does not throw.
C16_CloseWithoutFailure ==
    [][HandlingStep =>
         LET r == lastMsg'.request
         IN /\ (/\ r.method = "textDocument/didClose" /\ r.params /\ HasHandle(r.uri)
                /\ lastMsg'.fail = "none") => ClosesHandle(r)
            /\ StaysClosed(r)
      ]_vars

\* C17: a protocol message whose method is not one the adapter handles is answered
\* by exactly one error response with code -32601 and the request's id, and leaves
\* the adapter's state as it was, so that later messages are handled as they would
\* have been without it.
C17_UnknownMethod ==
    [][(HandlingStep /\ lastMsg'.request.method \notin HandledMethods) =>
         /\ lastMsg'.out = <<ErrorTo(lastMsg'.request, -32601, "Method not found")>>
         /\ ~lastMsg'.escaped
         /\ UNCHANGED <<workspace, fileHandles, pythonVersion, engine, closing, pending>>
      ]_vars

C17_Witness ==
    /\ "unknown" \in lastMsg.seen
    /\ lastMsg.request.method = "textDocument/diagnostic"
    /\ Len(lastMsg.out) = 1
    /\ lastMsg.out[1].kind = "response"
    /\ lastMsg.out[1].result.items # <<>>

\* C18: when the engine or another step of handleRequest throws, exactly one error
\* response with code -32603 is posted for the message, the listener's promise does
\* not reject, and the worker goes on handling messages.
C18_FailureContained ==
    [][(HandlingStep /\ Threw(lastMsg'.request, lastMsg'.fail)) =>
         /\ lastMsg'.out = <<ErrorTo(lastMsg'.request, -32603, "Internal error")>>
         /\ ~lastMsg'.escaped
         /\ closing' = closing
      ]_vars

C18_Witness ==
    /\ "threw" \in lastMsg.seen
    /\ lastMsg.request.method = "textDocument/completion"
    /\ lastMsg.fail = "none"
    /\ Len(lastMsg.out) = 1
    /\ lastMsg.out[1].kind = "response"
    /\ lastMsg.out[1].result.items = <<"A">>

\* C19: a document-scoped request that finds the workspace uninitialized or no
\* handle for its URI is answered with the empty result of its method, never with
\* an error, and without a call of the engine.
ExpectedEmpty(method) ==
    IF method = "textDocument/diagnostic" THEN [shape |-> "full", items |-> <<>>]
    ELSE IF method \in {"textDocument/hover", "textDocument/signatureHelp"}
    THEN [shape |-> "null", items |-> <<>>]
    ELSE IF method = "textDocument/completion" THEN [shape |-> "items", items |-> <<>>]
    ELSE [shape |-> "array", items |-> <<>>]
C19_MissingState ==
    [][HandlingStep =>
         LET r == lastMsg'.request
         IN (r.method \in DocumentMethods /\ r.params /\ ~HasHandle(r.uri)) =>
                /\ lastMsg'.out = <<ResponseTo(r, ExpectedEmpty(r.method))>>
                /\ lastMsg'.calls = 0
                /\ UNCHANGED <<workspace, fileHandles, pythonVersion, engine>>
      ]_vars

C19_Witness ==
    /\ lastMsg.request.method = "textDocument/completion"
    /\ lastMsg.phase = "handled"
    /\ workspace # 0
    /\ fileHandles[lastMsg.request.uri] = 0
    /\ fileHandles # [u \in URIs |-> 0]
    /\ lastMsg.out = <<ResponseTo(lastMsg.request, EmptyItems)>>

(***************************************************************************)
(* Checker services and conversions                                        *)
(***************************************************************************)
\* the selectable checkers whose service is a placeholder and whose checks
\* the application sends to runTypeChecker
NoIntegration == {"pyright", "pyrefly"}

\* C21: running a check with a checker that has no working integration
\* returns a non-empty list that holds a diagnostic of severity 'info'.
C21_PlaceholderReported ==
    conv.ops = <<"runTypeChecker">> /\ conv.input.typeChecker \in NoIntegration =>
        /\ conv.output # <<>>
        /\ \E i \in 1..Len(conv.output) : conv.output[i].severity = "info"

\* C22: a protocol position (line, character >= 0) converted by
\* lspToTyPosition and back by tyToLSPPosition is the position it was, and
\* an engine-native position (line, column >= 1) converted by
\* tyToLSPPosition and back by lspToTyPosition is the position it was.
C22_PositionRoundTrip ==
    /\ conv.ops = <<"lspToTyPosition", "tyToLSPPosition">> =>
           /\ conv.input \in LSPPositions
           /\ conv.output = conv.input
    /\ conv.ops = <<"tyToLSPPosition", "lspToTyPosition">> =>
           /\ conv.input \in TyPositions
           /\ conv.output = conv.input

C22_Witness ==
    /\ conv.ops = <<"lspToTyPosition", "tyToLSPPosition">>
    /\ conv.input = [line |-> 0, character |-> MaxCoord]
    /\ conv.output = conv.input

\* C24: in a location result, an engine path that begins with the marker
\* '/file:/' loses its leading '/file:' and gets 'file://' in front (so
\* '/file:/workspace/main.py' becomes 'file:///workspace/main.py'); a path
\* that begins with neither the marker nor 'file://', as every path without
\* a scheme does, gets 'file://' in front ('/workspace/main.py' becomes
\* 'file:///workspace/main.py'); a path that begins with 'file://' is
\* returned as it is.
C24_URIRewrite ==
    conv.ops = <<"tyLocationLinkToLSPLocation">> =>
        LET path == conv.input.path
            uri == conv.output.uri
        IN  /\ startsWith(path, FileMarker) =>
                   uri = FileScheme \o <<"/">> \o SubSeq(path, Len(FileMarker) + 1, Len(path))
            /\ path = FileMarker \o Chars_workspace_main_py =>
                   uri = FileScheme \o <<"/">> \o Chars_workspace_main_py
            /\ ~startsWith(path, FileMarker) /\ ~startsWith(path, FileScheme) =>
                   uri = FileScheme \o path
            /\ path = <<"/">> \o Chars_workspace_main_py =>
                   uri = FileScheme \o <<"/">> \o Chars_workspace_main_py
            /\ startsWith(path, FileScheme) => uri = path

C24_Witness ==
    /\ conv.ops = <<"tyLocationLinkToLSPLocation">>
    /\ conv.input.path = FileMarker \o Chars_workspace_main_py
    /\ conv.output.uri = FileScheme \o <<"/">> \o Chars_workspace_main_py

TyLevels == {SeverityError, SeverityWarning, SeverityInfo}
LSPLevels == {1, 2, 3}
AppLevels == {"error", "warning", "info"}

\* C25: on pull the engine severities Error, Warning, Info become the
\* protocol severities 1, 2, 3; on push the protocol severities 1, 2, 3
\* become the application severities error, warning, info; each mapping is
\* one-to-one and onto over the three levels; and a pull followed by a push
\* gives the application level of the engine level it started from.
C25_SeverityMapping ==
    /\ conv.ops = <<"lspSeverity">> /\ conv.input \in TyLevels =>
           conv.output = (CASE conv.input = SeverityError -> 1
                            [] conv.input = SeverityWarning -> 2
                            [] conv.input = SeverityInfo -> 3)
    /\ conv.ops = <<"appSeverity">> /\ conv.input \in LSPLevels =>
           conv.output = (CASE conv.input = 1 -> "error"
                            [] conv.input = 2 -> "warning"
                            [] conv.input = 3 -> "info")
    /\ conv.ops = <<"lspSeverity", "appSeverity">> /\ conv.input \in TyLevels =>
           conv.output = (CASE conv.input = SeverityError -> "error"
                            [] conv.input = SeverityWarning -> "warning"
                            [] conv.input = SeverityInfo -> "info")
    /\ \A a, b \in TyLevels : lspSeverity(a) = lspSeverity(b) => a = b
    /\ {lspSeverity(a) : a \in TyLevels} = LSPLevels
    /\ \A a, b \in LSPLevels : appSeverity(a) = appSeverity(b) => a = b
    /\ {appSeverity(a) : a \in LSPLevels} = AppLevels

C25_Witness ==
    /\ conv.ops = <<"lspSeverity", "appSeverity">>
    /\ conv.input = SeverityWarning
    /\ conv.output = "warning"

(***************************************************************************)
(* Diagnostics pull and format of the adapter                              *)
(***************************************************************************)
\* a 'textDocument/diagnostic' or 'textDocument/formatting' request for an open
\* document has been handled with the engine not throwing
Answered(method) ==
    /\ HandlingStep
    /\ lastMsg'.request.method = method
    /\ lastMsg'.request.params
    /\ lastMsg'.fail = "none"
    /\ HasHandle(lastMsg'.request.uri)
OneBefore(range) ==
    [start |-> [line |-> range.start.line - 1, character |-> range.start.column - 1],
     end |-> [line |-> range.end.line - 1, character |-> range.end.column - 1]]
Origin == [start |-> [line |-> 0, character |-> 0], end |-> [line |-> 0, character |-> 0]]
\* the items are the engine's diagnostics, one for one and in order, each with
\* source 'ty', the engine's message and, for an engine error, severity 1
PulledFrom(items, diags) ==
    /\ Len(items) = Len(diags)
    /\ \A i \in 1..Len(diags) :
           /\ items[i].source = "ty"
           /\ items[i].message = diags[i].message
           /\ diags[i].severity = SeverityError => items[i].severity = 1

\* C23 as stated: the pull answers with one protocol diagnostic per engine
\* diagnostic, in the engine's order, each with source 'ty', the engine's
\* message, severity 1 for an engine error, and the engine's range with 1
\* subtracted from every line and column.
C23_Original ==
    [][Answered("textDocument/diagnostic") =>
         LET diags == checkFile(Adapter, fileHandles[lastMsg'.request.uri])
             items == lastMsg'.out[1].result.items
         IN  /\ Len(lastMsg'.out) = 1
             /\ lastMsg'.out[1].kind = "response"
             /\ lastMsg'.out[1].result.shape = "full"
             /\ PulledFrom(items, diags)
             /\ \A i \in 1..Len(diags) :
                    /\ diags[i].range # NoRange
                    /\ items[i].range = OneBefore(diags[i].range)
      ]_vars

\* C23: the pull answers with one protocol diagnostic per engine diagnostic, in
\* the engine's order, each with source 'ty', the engine's message and severity
\* 1 for an engine error; its range is the engine's range with 1 subtracted from
\* every line and column when the engine gives the diagnostic a range, and
\* (0,0)-(0,0) when it gives none.
C23_DiagnosticsPull ==
    [][Answered("textDocument/diagnostic") =>
         LET diags == checkFile(Adapter, fileHandles[lastMsg'.request.uri])
             items == lastMsg'.out[1].result.items
         IN  /\ Len(lastMsg'.out) = 1
             /\ lastMsg'.out[1].kind = "response"
             /\ lastMsg'.out[1].result.shape = "full"
             /\ PulledFrom(items, diags)
             /\ \A i \in 1..Len(diags) :
                    items[i].range = IF diags[i].range # NoRange
                                     THEN OneBefore(diags[i].range)
                                     ELSE Origin
      ]_vars

\* one engine error at (1,1)-(1,2) has been pulled as one diagnostic of
\* severity 1 at (0,0)-(0,1)
C23_Witness ==
    /\ lastMsg.phase = "handled"
    /\ lastMsg.request.method = "textDocument/diagnostic"
    /\ lastMsg.fail = "none"
    /\ Len(lastMsg.out) = 1
    /\ lastMsg.out[1].kind = "response"
    /\ Len(lastMsg.out[1].result.items) = 1
    /\ lastMsg.out[1].result.items[1].severity = 1
    /\ lastMsg.out[1].result.items[1].range =
           [start |-> [line |-> 0, character |-> 0], end |-> [line |-> 0, character |-> 1]]

Newlines(text) == {i \in 1..Len(text) : text[i] = "\n"}
AfterLastNewline(text) ==
    IF Newlines(text) = {} THEN Len(text)
    ELSE Len(text) - (CHOOSE i \in Newlines(text) : \A j \in Newlines(text) : j <= i)

\* C26: format of an open document whose formatting produces text answers with
\* exactly one edit from (0,0) to (L, C), L the number of newline characters of
\* the document's current text and C the length of the text after the last
\* newline, with the formatted text as newText; when formatting yields nothing
\* the answer is the empty list.
C26_Format ==
    [][Answered("textDocument/formatting") =>
         LET handle == fileHandles[lastMsg'.request.uri]
             text == Content(sourceText(Adapter, handle))
             formatted == format(Adapter, handle)
             result == lastMsg'.out[1].result
         IN  /\ Len(lastMsg'.out) = 1
             /\ lastMsg'.out[1].kind = "response"
             /\ result.shape = "array"
             /\ IF formatted # ""
                THEN /\ Len(result.items) = 1
                     /\ result.items[1].range.start = [line |-> 0, character |-> 0]
                     /\ result.items[1].range.end =
                            [line |-> Cardinality(Newlines(text)),
                             character |-> AfterLastNewline(text)]
                     /\ result.items[1].newText = formatted
                ELSE result.items = <<>>
      ]_vars

\* a text of two characters and no newline has been formatted
C26_Witness ==
    /\ lastMsg.phase = "handled"
    /\ lastMsg.request.method = "textDocument/formatting"
    /\ lastMsg.fail = "none"
    /\ Len(lastMsg.out) = 1
    /\ lastMsg.out[1].kind = "response"
    /\ Len(lastMsg.out[1].result.items) = 1
    /\ lastMsg.out[1].result.items[1].range.end = [line |-> 0, character |-> 2]
    /\ lastMsg.out[1].result.items[1].newText = "formatted C"

(***************************************************************************)
(* The multi-worker transport: interception and boot                       *)
(***************************************************************************)
\* what the primary worker of transport t has been sent
PrimaryInbox(t) ==
    UNION {Range(workers[w].inbox) : w \in {v \in WorkersOf(t) : workers[v].role = "fg"}}
Intercepted(msg) ==
    /\ msg.rootUri = "file:///workspace"
    /\ msg.workspaceFolders = <<[uri |-> "file:///workspace", name |-> "workspace"]>>
    /\ "/workspace/main.py" \in msg.files
    /\ "/workspace/pyrightconfig.json" \in msg.files
    /\ msg.typeCheckingMode = "strict"

\* C27 as stated: every message with method 'initialize' that the primary worker
\* has been sent has rootUri 'file:///workspace', the single workspace folder
\* 'file:///workspace', and a files snapshot with '/workspace/main.py' and a
\* '/workspace/pyrightconfig.json' in strict mode.
C27_Original ==
    \A t \in BPs :
        \A msg \in PrimaryInbox(t) : msg.method = "initialize" => Intercepted(msg)

\* C27: every message with method 'initialize' and with params that the primary
\* worker has been sent has rootUri 'file:///workspace', the single workspace
\* folder 'file:///workspace', and a files snapshot with '/workspace/main.py'
\* and a '/workspace/pyrightconfig.json' in strict mode; an 'initialize' without
\* params is forwarded as it was passed.
C27_InitializeIntercepted ==
    \A t \in BPs :
        \A msg \in PrimaryInbox(t) :
            msg.method = "initialize" =>
                IF msg.params # "none" THEN Intercepted(msg)
                ELSE msg = JSONparse(Request("initialize", "none"))

\* send() has forwarded an 'initialize' whose caller named another root
C27_Witness ==
    /\ lastCall.op = "send"
    /\ lastCall.data.method = "initialize"
    /\ lastCall.data.rootUri = "file:///"
    /\ \E t \in BPs : \E msg \in PrimaryInbox(t) :
           msg.method = "initialize" /\ Intercepted(msg)

\* C28: the first message the primary worker of a multi-worker transport is
\* sent is the boot message {type: 'browser/boot', mode: 'foreground'}; it is
\* sent to the worker exactly once, and so before every message of send().
C28_BootFirst ==
    \A t \in BPs : \A w \in WorkersOf(t) :
        workers[w].role = "fg" =>
            /\ Len(workers[w].inbox) >= 1
            /\ workers[w].inbox[1] = BootMsg("foreground", 0, 0)
            /\ \A i \in 2..Len(workers[w].inbox) : workers[w].inbox[i].type # "browser/boot"

\* send() has posted two protocol messages after the boot message
C28_Witness ==
    \E t \in BPs : \E w \in WorkersOf(t) :
        /\ workers[w].role = "fg"
        /\ Len(workers[w].inbox) = 3
        /\ workers[w].inbox[1] = BootMsg("foreground", 0, 0)
        /\ workers[w].inbox[2].jsonrpc = "2.0"
        /\ workers[w].inbox[3].jsonrpc = "2.0"

(***************************************************************************)
(* Session teardown                                                        *)
(***************************************************************************)
IsCloseCall(m) == steps' = steps + 1 /\ lastCall'.op = "closeSession" /\ lastCall'.mgr = m

\* C29: a close call on a session manager, whatever the manager holds and
\* however often it has been called, does not throw and leaves the manager with
\* no client and no transport; it invokes close() once on the transport the
\* manager held and on no other, no transport has its close() invoked twice, and
\* a call that finds nothing active changes nothing.
C29_TeardownIdempotent ==
    [][\A m \in Managers :
         IsCloseCall(m) =>
             /\ ~lastCall'.threw
             /\ sm'[m].client = 0
             /\ sm'[m].transport = 0
             /\ \A t \in TIds :
                    /\ transports'[t].closeCalls =
                           transports[t].closeCalls + (IF t = sm[m].transport THEN 1 ELSE 0)
                    /\ transports'[t].closeCalls <= 1
             /\ (sm[m].client = 0 /\ sm[m].transport = 0) =>
                    UNCHANGED <<transports, workers, endpoints, clients, sm>>
      ]_vars

\* a close call that found nothing active, after the call that closed the
\* manager's transport
C29_Witness ==
    \E m \in Managers :
        /\ lastCall.op = "closeSession"
        /\ lastCall.mgr = m
        /\ lastCall.t = 0
        /\ sm[m].client = 0
        /\ sm[m].transport = 0
        /\ \E t \in TIds :
               /\ transports[t].owner = m
               /\ transports[t].closeCalls = 1
               /\ isClosed(World, t)

\* the create attempt c fails in this step: its promise rejects
CreateFails(c) == frames[c].pc # "rejected" /\ frames'[c].pc = "rejected"

\* C30: when a create attempt fails (the transport's readiness rejects, or the
\* client's initialization rejects or times out), every worker the attempt
\* constructed has been terminated and the manager holds no client and no
\* transport.
C30_FailedCreateReleases ==
    [][\A c \in TIds :
         CreateFails(c) =>
             /\ \A w \in WIds :
                    (workers'[w].state # "none" /\ workers'[w].owner = c) =>
                        workers'[w].state = "terminated"
             /\ sm'[frames'[c].mgr].client = 0
             /\ sm'[frames'[c].mgr].transport = 0
      ]_vars

(***************************************************************************)
(* The adapter: order of handling, handles, correlation, capabilities      *)
(***************************************************************************)
\* the listener starts handleRequest for a message in this step
HandlingBegins == steps' = steps + 1 /\ lastMsg'.phase \in {"handled", "suspended"}

\* C31: the adapter handles its messages one at a time: handling of a message
\* begins only when no earlier message is still being handled (none is suspended
\* in the engine start of 'initialize'), and so a didOpen that arrives after an
\* 'initialize' request gets a handle from the initialized workspace.
C31_OneAtATime ==
    [][HandlingBegins =>
         /\ pending = <<>>
         /\ (/\ pending # <<>>
             /\ lastMsg'.request.method = "textDocument/didOpen"
             /\ lastMsg'.request.params
             /\ lastMsg'.fail = "none") => fileHandles'[lastMsg'.request.uri] # 0
      ]_vars

\* C33: every handle in the URI-to-handle map was produced by the adapter's
\* current workspace.
C33_HandlesOfCurrentWorkspace ==
    \A u \in URIs :
        fileHandles[u] # 0 => engine.files[fileHandles[u]].workspace = workspace

IsEnvelope(msg) == msg.kind \in {"response", "error"}
RequestMethods == {"initialize", "shutdown"} \cup DocumentMethods

\* C35: when a message has been handled, a response or error envelope has been
\* posted only if the message carries an id; a request of a request-type method
\* has got exactly one envelope, with its id; a message without id has got none.
C35_Correlation ==
    [][HandlingStep =>
         LET r == lastMsg'.request
             envelopes == SelectSeq(lastMsg'.out, IsEnvelope)
         IN  /\ r.id = "undefined" => envelopes = <<>>
             /\ (r.id # "undefined" /\ r.method \in RequestMethods) =>
                    /\ Len(envelopes) = 1
                    /\ envelopes[1].id = r.id
      ]_vars

\* C36: a request for a method whose provider the 'initialize' response declares
\* is never answered with the error -32601.
C36_AdvertisedHandled ==
    [][HandlingStep =>
         (lastMsg'.request.method \in AdvertisedMethods =>
              \A i \in 1..Len(lastMsg'.out) :
                  ~(lastMsg'.out[i].kind = "error" /\ lastMsg'.out[i].code = -32601))
      ]_vars

(***************************************************************************)
(* Both transports: delivery to the subscribers; the worker's error event  *)
(***************************************************************************)
\* the handler invocations of the step
NewlyDelivered(t) ==
    SubSeq(transports'[t].delivered, Len(transports[t].delivered) + 1,
           Len(transports'[t].delivered))
IsMessageStep(t) == steps' = steps + 1 /\ lastCall'.op = "message" /\ lastCall'.t = t

\* C37: on both transports a 'message' event with a protocol object invokes
\* every handler subscribed at that moment exactly once with that message, a
\* throwing handler included and whatever the handlers before it did; no step
\* invokes a handler that is not subscribed, a handler is in the subscriber set
\* once however often it was subscribed, and the invocations of every step come
\* after those of the earlier steps, so each handler gets the messages in the
\* order of their arrival.
C37_SubscriberDelivery ==
    [][\A t \in TIds :
         LET hs == transports[t].handlers
             new == NewlyDelivered(t)
         IN  /\ Len(transports'[t].delivered) >= Len(transports[t].delivered)
             /\ SubSeq(transports'[t].delivered, 1, Len(transports[t].delivered)) =
                    transports[t].delivered
             /\ \A i, j \in 1..Len(transports'[t].handlers) :
                    transports'[t].handlers[i] = transports'[t].handlers[j] => i = j
             /\ \A i \in 1..Len(new) : new[i].h \in Range(hs)
             /\ (IsMessageStep(t) /\ IsObject(lastCall'.data) /\ lastCall'.data.jsonrpc = "2.0") =>
                    /\ Len(new) = Len(hs)
                    /\ \A i \in 1..Len(hs) :
                           new[i] = [h |-> hs[i], msg |-> JSONstringify(lastCall'.data)]
      ]_vars

\* a message has been delivered to the throwing handler and to the handler
\* subscribed after it
C37_Witness ==
    \E t \in TIds :
        /\ lastCall.op = "message"
        /\ lastCall.t = t
        /\ lastCall.invoked = 2
        /\ transports[t].handlers = <<"h1", "h2">>
        /\ Len(transports[t].delivered) = 2
        /\ transports[t].delivered[1].h \in ThrowingHandlers
        /\ transports[t].delivered[2].h = "h2"

IsErrorStep(t) == steps' = steps + 1 /\ lastCall'.op = "error" /\ lastCall'.t = t

\* C38: an 'error' event of the worker of a single-worker transport invokes
\* onError once and changes nothing else: the transport is as open as it was, the
\* worker is not terminated, and the subscribers, the listeners and everything
\* send() and the 'message' listener depend on are as they were.
C38_ErrorChangesNothingElse ==
    [][\A t \in TIds :
         (IsErrorStep(t) /\ transports[t].kind = "ww") =>
             /\ transports' = [transports EXCEPT ![t].onError = @ + 1]
             /\ ~lastCall'.threw
             /\ UNCHANGED <<workers, endpoints, sm, clients>>
      ]_vars

\* after an error event the open transport has posted a message of send() to
\* its running worker
C38_Witness ==
    \E t \in TIds :
        /\ transports[t].kind = "ww"
        /\ transports[t].onError = 1
        /\ ~isClosed(World, t)
        /\ workers[transports[t].worker].state = "running"
        /\ lastCall.op = "send"
        /\ ~lastCall.threw
        /\ lastCall.posted = 1

(***************************************************************************)
(* BasedPyrightTransport: the ready promise.                               *)
(***************************************************************************)
\* C34: the ready promise of every constructed multi-worker transport is
\* eventually resolved or rejected, in every run in which the grace-period
\* timer fires, also when close() was called before it.
C34_ReadinessSettles ==
    \A t \in TIds :
        (transports[t].kind = "bp") ~> (transports[t].ready # "pending")


(***************************************************************************)
(* The App component: diagnostics and the isChecking flag across a change   *)
(* of the selection.                                                       *)
(***************************************************************************)
\* the step invokes the onDiagnostics callback given to create call t
InvokesOnDiagnostics(t) ==
    /\ steps' = steps + 1
    /\ lastCall'.op = "publish"
    /\ lastCall'.t = t
    /\ lastCall'.diag # <<>>

\* C32: once the selection has changed, the onDiagnostics callback of the
\* effect of the previous selection is not invoked again, so no diagnostics
\* of a previous session are written to the state of the App; also when the
\* create call of the previous selection was still in flight at the change.
C32_NoStaleDiagnostics ==
    [][\A t \in TIds :
          InvokesOnDiagnostics(t) =>
              /\ t \notin app.cancelled
              /\ app'.diagnostics.frame = app'.lsp]_vars

\* C39: whenever isChecking is true it is false again later, whatever
\* selection changes and edits are made and whichever checker is selected then.
C39_CheckingClears == app.isChecking ~> ~app.isChecking

\* a check set the flag, wrote its result and cleared the flag, and the
\* selection has since been changed to an LSP-backed checker
C39_Witness ==
    /\ app.diagnostics.by = "check"
    /\ ~app.isChecking
    /\ app.typeChecker \in LSPCheckers
    /\ app.lsp # 0
    /\ lastCall.op = "select"

====
